---- MODULE Spec2Model ----
(***************************************************************************)
(* A state-machine model of three parts of the application's model layer:  *)
(*   - the symbolic Computation (nion/swift/model/Symbolic.py),            *)
(*   - the OperationItem / OperationManager framework (Operation.py),      *)
(*   - the Rectangle / Ellipse / Line graphics (Graphics.py).              *)
(* Every part has its own specification (SpecComputation, SpecEvaluate,    *)
(* SpecOperation, SpecRegistry, SpecGraphics); the variables of the other  *)
(* parts keep their initial values.                                        *)
(*                                                                         *)
(* Conventions: an optional value is a sequence of length at most one      *)
(* (None is << >>, a present value x is <<x>>); floating point geometry is *)
(* modelled by exact integers, in quarters of the image extent.            *)
(***************************************************************************)
EXTENDS Integers, Sequences, FiniteSets, TLC

VARIABLES
    computation,   \* the fields of one Computation object
    cvars,         \* the ComputationVariable objects, by uuid
    objs,          \* the host context's objects (data items), by uuid
    op,            \* the last operation the host called, and the object it was called on
    ret,           \* what that operation returned (None when nothing)
    binding,       \* "never", "bound" (bind() called, unbind() not) or "released"
    evaluating,    \* Computation.__evaluating
    evaluate_lock, \* the thread that holds Computation.__evaluate_lock, or 0
    thread,        \* per thread: where it is in begin_evaluate / end_evaluate
    granted,       \* the begin_evaluate() calls that returned true since the last end_evaluate()
    registry,      \* OperationManager().__operations: the factory registered for each id
    operation_item, \* the fields of one OperationItem, and of the Operation it holds
    graphic,       \* the Graphic the host draws, which the item may hold
    called,        \* the last operation the host called on the item, the graphic or the registry
    returned,      \* what that operation returned, or the exception it raised
    constructed,   \* how many Operation instances the factories have constructed
    latest_factory, \* history: the factory last registered for each id and not unregistered since
    drag,          \* the part of the graphic the host drags: (part name, bounds at begin_drag)
    assigned,      \* history: the bounds last handed to the graphic's bounds setter
    hit,           \* the last hit test: the point tested, move_only and what test() returned
    computation_variable, \* the persistent properties of one ComputationVariable
    type_call,     \* the last assignment to its variable_type: the type, and what was fired
    written,        \* the dictionary the variable was written to, if it was
    read_back,     \* the variable read back from that dictionary, if one was
    property_binding, \* an OperationPropertyBinding on the item: name, copy of values, tasks
    watched,       \* history: what the binding was told and what it scheduled
    fit,           \* one call of fit_to_aspect_ratio: the rectangle, the ratio and the result
    mirror,        \* a listener's copy of the Computation's variables, kept from its events
    adjusted,      \* one call of adjust_rectangle_like or of LineGraphic.adjust_part: arguments and result
    parse,         \* the thread that runs evaluate(): where it is, and what exec produced
    writer,        \* per thread that calls set_property: where it is, and the values it read
    target_value,  \* the value of the last update_target the UI thread ran, if any
    handles,       \* per variable: the BoundVariable listeners open on its property_changed_event
    observed       \* history: values["vector"] at each operation_changed of the last call

None == << >>
Some(x) == <<x>>

Range(s) == {s[i] : i \in 1..Len(s)}

(***************************************************************************)
(* Symbolic.py: values, variables, specifiers                              *)
(***************************************************************************)

\* bound of the model: scalar values and data values are 1..MaxValue
MaxValue == 2
Values == 1..MaxValue

\* the ComputationVariable objects the host can create (their uuids)
VarIds == {"v1", "v2"}
\* the objects of the host context (their uuids)
ObjIds == {"o1"}
\* the labels variables are given in the script
VarNames == {"a", "b"}

NoType == "<none>"
NoExpression == "<none>"
NoText == "<none>"
NoSpecifier == [type |-> "<none>", uuid |-> "<none>"]
NoItem == [kind |-> "<none>", id |-> "<none>"]

\* the expressions the host assigns; "" is the empty string
Expressions == {"", "a", "a + b", "a.data"}

\* the identifiers an expression adds up, in order
ExprNames(expression) ==
    CASE expression = "a" -> <<"a">>
      [] expression = "a + b" -> <<"a", "b">>
      [] expression = "a.data" -> <<"a">>
      [] OTHER -> << >>

\* ComputationVariable(name, value_type, value) / ComputationVariable(name, specifier=...)
ScalarVariable(name, value) ==
    [name |-> name, value_type |-> "real", value |-> value,
     specifier |-> NoSpecifier, cascade_delete |-> FALSE]

ObjectVariable(name, o) ==
    [name |-> name, value_type |-> NoType, value |-> None,
     specifier |-> [type |-> "data_item", uuid |-> o], cascade_delete |-> FALSE]

BareVariable(name) ==
    [name |-> name, value_type |-> NoType, value |-> None,
     specifier |-> NoSpecifier, cascade_delete |-> FALSE]

\* the variables the host creates
VariableTemplates ==
    {ScalarVariable(n, Some(x)) : n \in VarNames, x \in Values}
    \cup {ObjectVariable(n, o) : n \in VarNames, o \in ObjIds}
    \cup {BareVariable("a")}

\* ComputationVariable.variable_specifier
variable_specifier(u, v) ==
    IF v.value_type # NoType
    THEN [type |-> "variable", uuid |-> u]
    ELSE v.specifier

(***************************************************************************)
(* Symbolic.py: ComputationContext                                         *)
(***************************************************************************)

\* the host context's resolve_object_specifier: the object with that uuid, if any
host_resolve_object_specifier(os, object_specifier) ==
    IF object_specifier.uuid \in DOMAIN os /\ os[object_specifier.uuid].exists
    THEN [kind |-> "object", id |-> object_specifier.uuid]
    ELSE NoItem

\* Computation.resolve_variable: the owned variable with the specifier's uuid
resolve_variable(c, object_specifier) ==
    IF object_specifier.uuid \in Range(c.variables)
    THEN Some(object_specifier.uuid)
    ELSE None

\* ComputationContext.resolve_object_specifier
resolve_object_specifier(c, vs, os, object_specifier) ==
    LET variable == resolve_variable(c, object_specifier) IN
    IF variable = None
    THEN host_resolve_object_specifier(os, object_specifier)
    ELSE IF vs[variable[1]].specifier = NoSpecifier
         THEN [kind |-> "bound_variable", id |-> variable[1]]
         ELSE NoItem

\* the value property of a resolved item (BoundVariable.value, or the object's)
ItemValue(item, vs, os) ==
    IF item.kind = "bound_variable" THEN vs[item.id].value ELSE Some(os[item.id].value)

(***************************************************************************)
(* Symbolic.py: Computation.__parse_expression                             *)
(***************************************************************************)

Log(c, entries) == [c EXCEPT !.log = @ \o entries]

Raise(c, exception) == [c EXCEPT !.raised = exception]

\* the evaluation globals start from the context's g: no variable bindings
ContextG == {}

\* computation_variable_map: the last variable of each name that has a specifier
MapIndexes(c, vs, name) ==
    {i \in 1..Len(c.variables) :
        /\ vs[c.variables[i]].name = name
        /\ variable_specifier(c.variables[i], vs[c.variables[i]]) # NoSpecifier}

MapSpecifier(c, vs, name) ==
    LET i == CHOOSE k \in MapIndexes(c, vs, name) : \A j \in MapIndexes(c, vs, name) : j <= k
    IN variable_specifier(c.variables[i], vs[c.variables[i]])

\* the names bound in g when the code is executed
GNames(c, vs, os) ==
    ContextG \cup
    {name \in VarNames :
        /\ MapIndexes(c, vs, name) # {}
        /\ resolve_object_specifier(c, vs, os, MapSpecifier(c, vs, name)) # NoItem}

GValue(c, vs, os, name) ==
    ItemValue(resolve_object_specifier(c, vs, os, MapSpecifier(c, vs, name)), vs, os)

RECURSIVE SumOf(_, _, _, _)
SumOf(c, vs, os, names) ==
    IF names = << >> THEN 0
    ELSE GValue(c, vs, os, Head(names))[1] + SumOf(c, vs, os, Tail(names))

\* the attributes evaluate_data reads from a result, in the order it reads them
Facets ==
    <<"data", "data_shape_and_dtype", "intensity_calibration", "dimensional_calibrations",
      "metadata", "timestamp">>

\* which of them an object of a Python type has: the value of a scalar variable
\* is a float, the value of a data item is a DataAndMetadata, and the data of a
\* DataAndMetadata is an array, whose data attribute is its buffer
Attributes(type) ==
    CASE type = "DataAndMetadata" -> Range(Facets)
      [] type = "ndarray" -> {"data"}
      [] OTHER -> {}

\* the type of the value a name is bound to in g
GType(c, vs, os, name) ==
    LET item == resolve_object_specifier(c, vs, os, MapSpecifier(c, vs, name)) IN
    IF GValue(c, vs, os, name) = None THEN "NoneType"
    ELSE IF item.kind = "bound_variable" THEN "float"
    ELSE "DataAndMetadata"

\* the type of the result of the expression
ExecType(c, vs, os, expression) ==
    LET names == ExprNames(expression)
        types == {GType(c, vs, os, names[i]) : i \in 1..Len(names)}
    IN IF expression = "a.data" THEN "ndarray"
       ELSE IF "DataAndMetadata" \in types THEN "DataAndMetadata"
       ELSE "float"

\* exec(code, g, l): the result, or None when the execution raises
\* (an undefined name, a name bound to None in an addition, or the data
\* attribute of a value that has none)
ExecResult(c, vs, os, expression) ==
    LET names == ExprNames(expression) IN
    IF /\ \A i \in 1..Len(names) :
             /\ names[i] \in GNames(c, vs, os)
             /\ GValue(c, vs, os, names[i]) # None
       /\ expression = "a.data" => "data" \in Attributes(GType(c, vs, os, "a"))
    THEN Some(SumOf(c, vs, os, names))
    ELSE None

\* mutant: a failed execution keeps the previous result
ParseOutcomeKeepingResult(c, vs, os, expression) ==
    LET result == ExecResult(c, vs, os, expression) IN
    IF result # None
    THEN [data_and_metadata |-> result, error_text |-> NoText,
          result_type |-> ExecType(c, vs, os, expression)]
    ELSE [data_and_metadata |-> c.data_and_metadata, error_text |-> "Execution Error",
          result_type |-> c.result_type]

\* the try / except around exec: (data_and_metadata, error_text), and the type
\* of the result
ParseOutcome(c, vs, os, expression) ==
    LET result == ExecResult(c, vs, os, expression) IN
    IF result # None
    THEN [data_and_metadata |-> result, error_text |-> NoText,
          result_type |-> ExecType(c, vs, os, expression)]
    ELSE [data_and_metadata |-> None, error_text |-> "Execution Error",
          result_type |-> "NoneType"]

ParseExpression(c, vs, os, expression) ==
    IF c.raised # "none" \/ expression \in {NoExpression, ""} THEN c
    ELSE IF ~c.context THEN Raise(c, "AttributeError")
    ELSE LET outcome == ParseOutcome(c, vs, os, expression) IN
         Log([c EXCEPT !.data_and_metadata = outcome.data_and_metadata,
                       !.result_type = outcome.result_type,
                       !.error_text = outcome.error_text,
                       !.needs_parse = FALSE],
             <<"parse", "computation_mutated_event">>)

(***************************************************************************)
(* Symbolic.py: Computation.evaluate and the listeners of __bind_variable  *)
(***************************************************************************)

\* Computation.evaluate
Evaluate(c, vs, os) ==
    IF c.raised # "none" THEN c
    ELSE LET c1 == Log([c EXCEPT !.needs_update = FALSE], <<"evaluate">>) IN
         IF c1.needs_parse
         THEN ParseExpression(c1, vs, os, c1.original_expression)
         ELSE c1

\* needs_update() of __bind_variable
NeedsUpdate(c) ==
    IF c.raised # "none" THEN c
    ELSE Log([c EXCEPT !.needs_parse = TRUE, !.needs_update = TRUE],
             <<"needs_update_event">>)

\* mutant: needs_update2 marks the update first and evaluates afterwards
NeedsUpdate2EvaluatingLast(c, vs, os) == Evaluate(NeedsUpdate(c), vs, os)

\* needs_update2() of __bind_variable
NeedsUpdate2(c, vs, os) == NeedsUpdate(Evaluate(c, vs, os))

\* one firing of the variable's property_changed_event: the BoundVariable held
\* as bound item forwards a change of "value" to its changed_event, then the
\* Computation's own listener runs
PropertyChangedEvent(c, vs, os, u, key) ==
    LET forwards == /\ key = "value"
                    /\ u \in DOMAIN c.bound_items
                    /\ c.bound_items[u] = [kind |-> "bound_variable", id |-> u]
                    /\ u \in c.bound_item_changed_event_listeners
        c1 == IF forwards THEN NeedsUpdate(c) ELSE c
    IN IF u \in c.variable_property_changed_listener THEN NeedsUpdate(c1) ELSE c1

RECURSIVE PropertyChangedEvents(_, _, _, _, _)
PropertyChangedEvents(c, vs, os, u, keys) ==
    IF keys = << >> THEN c
    ELSE PropertyChangedEvents(PropertyChangedEvent(c, vs, os, u, Head(keys)),
                               vs, os, u, Tail(keys))

\* ComputationVariable.__property_changed(name, value), seen from the Computation
\* keys: the property notifications it sends before changed_event fires
VariablePropertyChanged(c, vs, os, u, keys) ==
    LET c1 == PropertyChangedEvents(c, vs, os, u, keys) IN
    IF u \in c1.variable_changed_event_listeners
    THEN NeedsUpdate2(c1, vs, os)
    ELSE c1

\* the notifications of a property: name and label also notify display_label
NotifiedKeys(key) ==
    IF key \in {"name", "label"} THEN <<key, "display_label">> ELSE <<key>>

(***************************************************************************)
(* Symbolic.py: __bind_variable, __unbind_variable, bind, unbind           *)
(***************************************************************************)

DictSet(d, k, v) == [x \in DOMAIN d \cup {k} |-> IF x = k THEN v ELSE d[x]]

DictDel(d, k) == [x \in DOMAIN d \ {k} |-> d[x]]

\* Event.listen and EventListener.close: a listener is registered with the
\* event from listen() until its close(); open is the number of listeners the
\* Computation has registered with one event and not closed
Listen(open) == open + 1

Close(open) == open - 1

\* Computation.__bind_variable
BindVariable(c, vs, os, u) ==
    IF c.raised # "none" THEN c
    ELSE LET c1 == [c EXCEPT !.variable_changed_event_listeners = @ \cup {u},
                             !.changed_event_listening[u] = Listen(@)]
             spec == variable_specifier(u, vs[u])
             bound_item == resolve_object_specifier(c1, vs, os, spec)
             c2 == [c1 EXCEPT !.bound_items = DictSet(@, u, bound_item),
                              !.variable_property_changed_listener = @ \cup {u}]
         IN IF spec = NoSpecifier THEN c1
            ELSE IF ~c.context THEN Raise(c1, "AttributeError")
            ELSE IF bound_item = NoItem THEN c2
            ELSE [c2 EXCEPT !.bound_item_changed_event_listeners = @ \cup {u},
                            !.bound_item_deleted_event_listeners = @ \cup {u}]

\* Computation.__unbind_variable
UnbindVariable(c, u) ==
    IF c.raised # "none" THEN c
    ELSE IF u \notin c.variable_changed_event_listeners THEN Raise(c, "KeyError")
    ELSE LET c1 == [c EXCEPT !.variable_changed_event_listeners = @ \ {u},
                             !.changed_event_listening[u] = Close(@)] IN
         IF u \in DOMAIN c1.bound_items /\ c1.bound_items[u] = NoItem
         THEN Raise(c1, "AttributeError")
         ELSE [c1 EXCEPT !.bound_items = DictDel(@, u),
                         !.bound_item_changed_event_listeners = @ \ {u},
                         !.bound_item_deleted_event_listeners = @ \ {u},
                         !.variable_property_changed_listener = @ \ {u}]

RECURSIVE BindVariables(_, _, _, _)
BindVariables(c, vs, os, us) ==
    IF us = << >> THEN c
    ELSE BindVariables(BindVariable(c, vs, os, Head(us)), vs, os, Tail(us))

RECURSIVE UnbindVariables(_, _)
UnbindVariables(c, us) ==
    IF us = << >> THEN c
    ELSE UnbindVariables(UnbindVariable(c, Head(us)), Tail(us))

\* Computation.bind
BindContext(c, vs, os) ==
    LET c1 == [c EXCEPT !.context = TRUE] IN
    IF DOMAIN c1.bound_items = {}
    THEN BindVariables(c1, vs, os, c1.variables)
    ELSE c1

\* Computation.unbind
UnbindAll(c) == UnbindVariables(c, c.variables)

(***************************************************************************)
(* Symbolic.py: add_variable, remove_variable, the expression setter       *)
(***************************************************************************)

IndexOf(s, x) == CHOOSE i \in 1..Len(s) : s[i] = x

RemoveAt(s, i) == SubSeq(s, 1, i - 1) \o SubSeq(s, i + 1, Len(s))

IfOk(c, entries) == IF c.raised # "none" THEN c ELSE Log(c, entries)

\* Computation.add_variable
AddVariableTo(c, vs, os, u) ==
    LET c1 == [c EXCEPT !.variables = Append(@, u)]
        c2 == BindVariable(c1, vs, os, u)
        c3 == ParseExpression(c2, vs, os, c2.original_expression)
    IN IfOk(c3, <<"variable_inserted_event", "computation_mutated_event">>)

\* Computation.remove_variable
RemoveVariableFrom(c, vs, os, u) ==
    LET c1 == UnbindVariable(c, u)
        c2 == IF c1.raised # "none" THEN c1
              ELSE [c1 EXCEPT !.variables = RemoveAt(@, IndexOf(@, u))]
        c3 == ParseExpression(c2, vs, os, c2.original_expression)
    IN IfOk(c3, <<"variable_removed_event", "computation_mutated_event">>)

\* Computation.expression setter; the log also holds the store of the new
\* value, so that it shows which notifications were sent before it
SetExpressionOf(c, vs, os, value) ==
    IF value = c.original_expression THEN c
    ELSE LET c1 == ParseExpression(c, vs, os, value) IN
         IF c1.raised # "none" THEN c1
         ELSE Log([c1 EXCEPT !.original_expression = value, !.needs_update = TRUE],
                  <<"original_expression", "needs_update_event",
                    "computation_mutated_event">>)

\* a change of a host object: its changed_event runs needs_update once for
\* every open listener the Computation holds on it
RECURSIVE ObjectChangedEvent(_, _, _)
ObjectChangedEvent(c, o, us) ==
    IF us = {} THEN c
    ELSE LET u == CHOOSE x \in us : TRUE
             listening == /\ u \in c.bound_item_changed_event_listeners
                          /\ u \in DOMAIN c.bound_items
                          /\ c.bound_items[u] = [kind |-> "object", id |-> o]
         IN ObjectChangedEvent(IF listening THEN NeedsUpdate(c) ELSE c, o, us \ {u})

(***************************************************************************)
(* The Computation as a state machine                                      *)
(***************************************************************************)

computationVars == <<computation, cvars, objs, op, ret, binding>>

evaluateVars == <<evaluating, evaluate_lock, thread, granted>>

operationVars ==
    <<registry, operation_item, graphic, called, returned, constructed, latest_factory>>

graphicsVars == <<drag, assigned>>

\* the variables of the parts that are specified further below
restVars ==
    <<hit, computation_variable, type_call, written, read_back, property_binding, watched>>

restVarsButBinding ==
    <<hit, computation_variable, type_call, written, read_back, watched>>

\* the variables of the threads, the handles and the observers specified last
lastVars == <<parse, writer, target_value, handles, observed>>

\* the variables of the geometry functions and of the drags of a line
laterVars == <<fit, mirror, adjusted, lastVars>>

vars == <<computationVars, evaluateVars, operationVars, graphicsVars, restVars, laterVars>>

\* Computation.__init__
NewComputation(expression) ==
    [original_expression |-> expression,
     error_text |-> NoText,
     needs_update |-> (expression # NoExpression),
     needs_parse |-> TRUE,
     data_and_metadata |-> None,
     result_type |-> "NoneType",
     evaluate_error |-> NoText,
     variables |-> << >>,
     context |-> FALSE,
     variable_changed_event_listeners |-> {},
     changed_event_listening |-> [u \in VarIds |-> 0],
     bound_items |-> << >>,
     bound_item_changed_event_listeners |-> {},
     bound_item_deleted_event_listeners |-> {},
     variable_property_changed_listener |-> {},
     log |-> << >>,
     raised |-> "none"]

\* the state of the Computation when the host calls into it
Called == [computation EXCEPT !.log = << >>, !.raised = "none"]

Op(name, target) == [name |-> name, target |-> target]

\* bound of the model: the listeners the Computation registers with one event
MaxListeners == 2

\* another bind() stays within that bound
WithinListeners ==
    \A u \in VarIds : computation.changed_event_listening[u] < MaxListeners

\* a Computation as constructed, or as read back from storage with one variable
ConstructComputation ==
    /\ \E e \in {NoExpression, "a + b"} :
          \/ /\ computation = NewComputation(e)
             /\ cvars = [u \in VarIds |-> BareVariable("a")]
          \/ \E v \in VariableTemplates :
                /\ computation = [NewComputation(e) EXCEPT !.variables = <<"v1">>]
                /\ cvars = [u \in VarIds |-> IF u = "v1" THEN v ELSE BareVariable("a")]
    /\ objs = [o \in ObjIds |-> [value |-> 1, exists |-> TRUE]]
    /\ op = Op("init", "")
    /\ ret = None
    /\ binding = "never"

Bind ==
    /\ computation' = BindContext(Called, cvars, objs)
    /\ op' = Op("bind", "")
    /\ ret' = None
    /\ binding' = "bound"
    /\ UNCHANGED <<cvars, objs>>

Unbind ==
    /\ computation' = UnbindAll(Called)
    /\ op' = Op("unbind", "")
    /\ ret' = None
    /\ binding' = IF binding = "never" THEN "never" ELSE "released"
    /\ UNCHANGED <<cvars, objs>>

\* create_variable / create_object: a new variable object, then add_variable
AddVariable ==
    \E u \in VarIds \ Range(computation.variables), v \in VariableTemplates :
        /\ cvars' = [cvars EXCEPT ![u] = v]
        /\ computation' = AddVariableTo(Called, cvars', objs, u)
        /\ op' = Op("add_variable", u)
        /\ ret' = None
        /\ UNCHANGED <<objs, binding>>

\* remove_variable; a variable that was removed is dropped by the host
RemoveVariable ==
    \E u \in Range(computation.variables) :
        /\ computation' = RemoveVariableFrom(Called, cvars, objs, u)
        /\ cvars' = IF u \in Range(computation'.variables)
                    THEN cvars
                    ELSE [cvars EXCEPT ![u] = BareVariable("a")]
        /\ op' = Op("remove_variable", u)
        /\ ret' = None
        /\ UNCHANGED <<objs, binding>>

SetExpression ==
    \E value \in Expressions :
        /\ computation' = SetExpressionOf(Called, cvars, objs, value)
        /\ op' = Op("set_expression", value)
        /\ ret' = None
        /\ UNCHANGED <<cvars, objs, binding>>

\* variable.value = value, on a scalar variable
SetValue ==
    \E u \in Range(computation.variables), value \in Values :
        /\ cvars[u].value_type # NoType
        /\ cvars' = [cvars EXCEPT ![u].value = Some(value)]
        /\ computation' = VariablePropertyChanged(Called, cvars', objs, u, NotifiedKeys("value"))
        /\ op' = Op("set_value", u)
        /\ ret' = None
        /\ UNCHANGED <<objs, binding>>

\* variable.label = label (the label itself is used by no operation modelled here)
SetLabel ==
    \E u \in Range(computation.variables) :
        /\ computation' = VariablePropertyChanged(Called, cvars, objs, u, NotifiedKeys("label"))
        /\ op' = Op("set_label", u)
        /\ ret' = None
        /\ UNCHANGED <<cvars, objs, binding>>

\* the data of a host object changes and its changed_event fires
ObjectChanged ==
    \E o \in ObjIds, value \in Values :
        /\ objs[o].exists
        /\ objs' = [objs EXCEPT ![o].value = value]
        /\ computation' = ObjectChangedEvent(Called, o, VarIds)
        /\ op' = Op("object_changed", o)
        /\ ret' = None
        /\ UNCHANGED <<cvars, binding>>

\* the host calls evaluate()
HostEvaluate ==
    /\ computation' = Evaluate(Called, cvars, objs)
    /\ op' = Op("evaluate", "")
    /\ ret' = IF computation'.raised = "none" THEN computation'.data_and_metadata ELSE None
    /\ UNCHANGED <<cvars, objs, binding>>

(***************************************************************************)
(* Symbolic.py: begin_evaluate / end_evaluate, called from several threads *)
(***************************************************************************)

\* bound of the model: the threads that call begin_evaluate
MaxThreads == 3
Threads == 1..MaxThreads

NoThread == 0

Idle == [pc |-> "idle", evaluating |-> FALSE, returned |-> "none"]

ConstructEvaluate ==
    /\ evaluating = FALSE
    /\ evaluate_lock = NoThread
    /\ thread = [t \in Threads |-> Idle]
    /\ granted = 0

\* mutant: begin_evaluate does not wait for the lock
LockIgnored(t) == TRUE

\* with self.__evaluate_lock: the lock is free (no thread calls begin_evaluate
\* from inside begin_evaluate, so the lock is never re-entered)
LockFree(t) == evaluate_lock = NoThread

\* begin_evaluate: enter the with block
BeginAcquire(t) ==
    /\ thread[t].pc \in {"idle"}
    /\ LockFree(t)
    /\ evaluate_lock' = t
    /\ thread' = [thread EXCEPT ![t].pc = "locked", ![t].returned = "none"]
    /\ UNCHANGED <<evaluating, granted>>

\* evaluating = self.__evaluating
BeginRead(t) ==
    /\ thread[t].pc = "locked"
    /\ thread' = [thread EXCEPT ![t].pc = "read", ![t].evaluating = evaluating]
    /\ UNCHANGED <<evaluating, evaluate_lock, granted>>

\* self.__evaluating = True
BeginWrite(t) ==
    /\ thread[t].pc = "read"
    /\ evaluating' = TRUE
    /\ thread' = [thread EXCEPT ![t].pc = "written"]
    /\ UNCHANGED <<evaluate_lock, granted>>

\* return not evaluating, leaving the with block; a caller that receives
\* true goes on to evaluate, a caller that receives false does not
BeginReturn(t) ==
    /\ thread[t].pc = "written"
    /\ evaluate_lock' = IF evaluate_lock = t THEN NoThread ELSE evaluate_lock
    /\ thread' = [thread EXCEPT
                    ![t].pc = IF thread[t].evaluating THEN "idle" ELSE "evaluating",
                    ![t].returned = IF thread[t].evaluating THEN "false" ELSE "true"]
    /\ granted' = IF thread[t].evaluating THEN granted ELSE granted + 1
    /\ UNCHANGED evaluating

\* end_evaluate, called only by a caller that received true
EndEvaluate(t) ==
    /\ thread[t].pc = "evaluating"
    /\ evaluating' = FALSE
    /\ thread' = [thread EXCEPT ![t].pc = "idle"]
    /\ granted' = 0
    /\ UNCHANGED evaluate_lock

(***************************************************************************)
(* Operation.py: the operations and their parameters                       *)
(***************************************************************************)

\* 1.0, the image extent in normalized coordinates, in quarters
One == 4

Point(c) == <<c, c>>

\* the default of the "vector" parameter: ((0.25, 0.25), (0.75, 0.75))
DefaultVector == <<Point(1), Point(3)>>

\* the default of the "bounds" parameter: ((0.0, 0.0), (1.0, 1.0))
DefaultBounds == <<Point(0), Point(One)>>

\* the default of the "sigma" parameter (0.3), in tenths
DefaultSigma == 3

\* the Python None held as the value of an integer field
PyNone == -1

\* bound of the model: the height and the width of the data are 1..MaxDimension
MaxDimension == 2
Dimensions == 1..MaxDimension

\* the points the host moves a graphic to or assigns to a parameter
InputPoints == {Point(1), Point(3)}

Keys == {"vector", "bounds", "sigma", "width", "height"}

\* the values the host assigns to a parameter
KeyValues(key) ==
    CASE key \in {"vector", "bounds"} -> InputPoints \X InputPoints
      [] key = "sigma" -> {DefaultSigma, DefaultSigma + 2}
      [] OTHER -> {PyNone} \cup Dimensions

\* the "property" entries of an Operation's description, in order
Properties(operation) ==
    CASE operation = "LineProfileOperation" -> <<"vector">>
      [] operation = "Crop2dOperation" -> <<"bounds">>
      [] operation = "GaussianBlurOperation" -> <<"sigma">>
      [] operation = "Resample2dOperation" -> <<"width", "height">>
      [] OTHER -> << >>

\* the "type" entry of a parameter's description
PropertyType(key) ==
    CASE key = "vector" -> "line"
      [] key = "bounds" -> "rectangle"
      [] key = "sigma" -> "scalar"
      [] OTHER -> "integer-field"

\* the "default" entry of a parameter's description (None for the integer fields)
DescriptionDefault(key) ==
    CASE key = "vector" -> Some(DefaultVector)
      [] key = "bounds" -> Some(DefaultBounds)
      [] key = "sigma" -> Some(DefaultSigma)
      [] OTHER -> None

\* the attributes an Operation's __init__ sets
InitialAttribute(operation, key) ==
    IF key \notin Range(Properties(operation)) THEN None
    ELSE CASE key = "vector" -> Some(DefaultVector)
           [] key = "bounds" -> Some(DefaultBounds)
           [] key = "sigma" -> Some(DefaultSigma)
           [] OTHER -> Some(0)

OperationName(operation) ==
    CASE operation = "LineProfileOperation" -> "Line Profile"
      [] operation = "Crop2dOperation" -> "Crop"
      [] operation = "GaussianBlurOperation" -> "Gaussian Blur"
      [] operation = "Resample2dOperation" -> "Resample"
      [] OTHER -> "Unavailable Operation"

\* Resample2dOperation.property_defaults_for_data_shape_and_dtype; the other
\* operations inherit the empty dictionary
property_defaults_for_data_shape_and_dtype(operation, data_shape) ==
    IF operation = "Resample2dOperation"
    THEN <<[property |-> "height", default |-> data_shape[1]],
           [property |-> "width", default |-> data_shape[2]]>>
    ELSE << >>

(***************************************************************************)
(* Operation.py: OperationManager                                          *)
(***************************************************************************)

NoFactory == "none"
NoOperation == "none"

\* an id no factory is registered for when the program starts
PluginId == "plugin-operation"

OperationIds ==
    {"line-profile-operation", "crop-operation", "gaussian-blur-operation",
     "resample-operation", PluginId}

Factories ==
    {"LineProfileOperation", "Crop2dOperation", "GaussianBlurOperation",
     "Resample2dOperation"}

\* the registrations made when the module is loaded (those of the modelled operations)
BuiltinRegistrations ==
    [id \in OperationIds |->
        CASE id = "line-profile-operation" -> "LineProfileOperation"
          [] id = "crop-operation" -> "Crop2dOperation"
          [] id = "gaussian-blur-operation" -> "GaussianBlurOperation"
          [] id = "resample-operation" -> "Resample2dOperation"
          [] OTHER -> NoFactory]

\* mutant: a registration does not replace the factory an id already has
register_operation_once(reg, operation_id, create_operation_fn) ==
    IF reg[operation_id] = NoFactory
    THEN [reg EXCEPT ![operation_id] = create_operation_fn]
    ELSE reg

\* OperationManager.register_operation
register_operation(reg, operation_id, create_operation_fn) ==
    [reg EXCEPT ![operation_id] = create_operation_fn]

\* OperationManager.unregister_operation: the registry, or the exception
\* del raises for a missing key
unregister_operation(reg, operation_id) ==
    IF reg[operation_id] = NoFactory
    THEN [registry |-> reg, raised |-> "KeyError"]
    ELSE [registry |-> [reg EXCEPT ![operation_id] = NoFactory], raised |-> "none"]

\* OperationManager.build_operation: the class the factory constructs, or None
build_operation(reg, operation_id) ==
    IF reg[operation_id] # NoFactory THEN reg[operation_id] ELSE NoOperation

(***************************************************************************)
(* Operation.py: OperationItem                                             *)
(***************************************************************************)

\* OperationItem.__init__
NewOperationItem(reg, operation_id) ==
    LET operation == build_operation(reg, operation_id) IN
    [operation_id |-> operation_id,
     operation |-> operation,
     name |-> OperationName(operation),
     enabled |-> TRUE,
     defaults |-> [key \in Keys |->
                     IF key \in Range(Properties(operation))
                     THEN DescriptionDefault(key) ELSE None],
     values |-> [key \in Keys |-> None],
     attributes |-> [key \in Keys |-> InitialAttribute(operation, key)],
     graphic |-> FALSE,
     observing |-> FALSE,
     log |-> << >>,
     raised |-> "none"]

\* self.values[property_id] = value; if self.operation: setattr(...)
StoreValue(it, property_id, value) ==
    [it EXCEPT !.values[property_id] = Some(value),
               !.attributes[property_id] =
                    IF it.operation # NoOperation THEN Some(value) ELSE @]

\* OperationItem.notify_set_property
item_notify_set_property(it, key) ==
    Log(it, <<"property_changed " \o key, "operation_changed">>)

\* OperationItem.set_property
set_property(it, property_id, value) ==
    item_notify_set_property(StoreValue(it, property_id, value), "values")

\* mutant: the default is written over the value that is there
set_property_default_overwriting(it, property_id, default_value) ==
    IF property_id \notin Range(Properties(it.operation)) THEN it
    ELSE StoreValue([it EXCEPT !.defaults[property_id] = Some(default_value)],
                    property_id, default_value)

\* OperationItem.__set_property_default
set_property_default(it, property_id, default_value) ==
    IF property_id \notin Range(Properties(it.operation)) THEN it
    ELSE LET it1 == [it EXCEPT !.defaults[property_id] = Some(default_value)] IN
         IF it1.values[property_id] = None \/ it1.values[property_id] = Some(PyNone)
         THEN StoreValue(it1, property_id, default_value)
         ELSE it1

RECURSIVE SetPropertyDefaults(_, _)
SetPropertyDefaults(it, default_values) ==
    IF default_values = << >> THEN it
    ELSE SetPropertyDefaults(
            set_property_default(it, Head(default_values).property,
                                 Head(default_values).default),
            Tail(default_values))

\* OperationItem.update_data_shape_and_dtype
update_data_shape_and_dtype(it, data_shape) ==
    IF it.operation # NoOperation
    THEN SetPropertyDefaults(it,
            property_defaults_for_data_shape_and_dtype(it.operation, data_shape))
    ELSE it

\* one description entry of __sync_graphic
SyncEntry(it, g, property_id) ==
    IF PropertyType(property_id) = "line" /\ it.graphic /\ g.kind = "line"
    THEN StoreValue(it, property_id, <<g.start, g.end>>)
    ELSE IF PropertyType(property_id) = "rectangle" /\ it.graphic /\ g.kind = "rectangle"
    THEN StoreValue(it, property_id, g.bounds)
    ELSE it

RECURSIVE SyncEntries(_, _, _)
SyncEntries(it, g, properties) ==
    IF properties = << >> THEN it
    ELSE SyncEntries(SyncEntry(it, g, Head(properties)), g, Tail(properties))

\* mutant: the graphic's geometry is not copied
sync_graphic_skipped(it, g) == it

\* OperationItem.__sync_graphic
sync_graphic(it, g) == SyncEntries(it, g, Properties(it.operation))

\* self.graphic.remove_observer(self)
remove_observer(it) == [it EXCEPT !.observing = FALSE]

\* OperationItem.set_graphic("graphic", graphic); attach: a graphic, not None
set_graphic(it, attach, g) ==
    LET it1 == IF it.graphic
               THEN [remove_observer(Log(it, <<"clear_item graphic">>))
                        EXCEPT !.graphic = FALSE]
               ELSE it
    IN IF attach
       THEN sync_graphic(Log([it1 EXCEPT !.graphic = TRUE, !.observing = TRUE],
                             <<"set_item graphic">>), g)
       ELSE it1

\* OperationItem.property_changed, called with the graphic that changed
item_property_changed(it, g) ==
    IF it.graphic
    THEN Log(sync_graphic(it, g), <<"operation_changed">>)
    ELSE it

\* Graphic.notify_set_property, seen from the item: the observers are told
graphic_notify_set_property(it, g) ==
    IF it.observing THEN item_property_changed(it, g) ELSE it

\* the properties and items of an OperationItem that are stored
Stored(it) ==
    [operation_id |-> it.operation_id, enabled |-> it.enabled,
     values |-> it.values, graphic |-> it.graphic]

\* OperationItem.build
build(reg, stored, g) ==
    LET operation == NewOperationItem(reg, stored.operation_id)
        it1 == item_notify_set_property(
                  [operation EXCEPT !.enabled = stored.enabled], "enabled")
        it2 == [it1 EXCEPT !.values = stored.values]
    IN set_graphic(it2, stored.graphic, g)

\* OperationItem.deepcopy_from: self is the new item, operation the one copied
deepcopy_from(self, operation, g) ==
    LET it1 == [self EXCEPT
                  !.values = [key \in Keys |->
                                IF operation.values[key] # None
                                THEN operation.values[key] ELSE @[key]]]
        it2 == set_graphic(it1, operation.graphic, g)
    IN [it2 EXCEPT !.enabled = operation.enabled]

\* OperationItem.__deepcopy__
deepcopy(reg, it, g) == deepcopy_from(NewOperationItem(reg, it.operation_id), it, g)

\* what a processing call hands back: the input, a copy of it, or what the
\* Operation computes from the input and its attributes
Processed(it, method) ==
    [value |-> "operation", method |-> method, attributes |-> it.attributes]

Input(it, value) ==
    [value |-> value, method |-> "none", attributes |-> [key \in Keys |-> None]]

\* OperationItem.process_data
process_data(it) ==
    IF it.operation # NoOperation
    THEN [raised |-> "none", value |-> Processed(it, "process_data_in_place")]
    ELSE [raised |-> "none", value |-> Input(it, "copy of the input")]

\* OperationItem.get_processed_calibrations
get_processed_calibrations(it) ==
    IF it.operation # NoOperation
    THEN [raised |-> "none", value |-> Processed(it, "get_processed_calibrations")]
    ELSE [raised |-> "none", value |-> Input(it, "the input")]

\* OperationItem.get_processed_intensity_calibration: the else branch returns
\* source_calibrations, a name that is bound nowhere
get_processed_intensity_calibration(it) ==
    IF it.operation # NoOperation
    THEN [raised |-> "none",
          value |-> Processed(it, "get_processed_intensity_calibration")]
    ELSE [raised |-> "NameError", value |-> Input(it, "nothing")]

\* OperationItem.get_processed_data_shape_and_dtype
get_processed_data_shape_and_dtype(it) ==
    IF it.operation # NoOperation
    THEN [raised |-> "none",
          value |-> Processed(it, "get_processed_data_shape_and_dtype")]
    ELSE [raised |-> "none", value |-> Input(it, "the input")]

(***************************************************************************)
(* The OperationItem and its graphic as a state machine                    *)
(***************************************************************************)

GraphicKinds == {"line", "rectangle", "ellipse"}

\* LineGraphic.__init__ / RectangleGraphic.__init__ / EllipseGraphic.__init__
NewGraphic(kind) ==
    [kind |-> kind, start |-> Point(0), end |-> Point(One),
     bounds |-> <<Point(0), Point(One)>>]

\* mutant: the bounds are stored as they are assigned
RectangleSetBoundsUnnormalized(bounds) == bounds

\* RectangleGraphic.__set_bounds: the bounds that are stored
RectangleSetBounds(bounds) ==
    LET b1 == IF bounds[2][1] < 0
              THEN <<<<bounds[1][1] + bounds[2][1], bounds[1][2]>>,
                     <<-bounds[2][1], bounds[2][2]>>>>
              ELSE bounds
    IN IF b1[2][2] < 0
       THEN <<<<b1[1][1], b1[1][2] + b1[2][2]>>, <<b1[2][1], -b1[2][2]>>>>
       ELSE b1

\* EllipseGraphic.__set_bounds: the bounds that are stored
EllipseSetBounds(bounds) ==
    LET b1 == IF bounds[2][1] < 0
              THEN <<<<bounds[1][1] + bounds[2][1], bounds[1][2]>>,
                     <<-bounds[2][1], bounds[2][2]>>>>
              ELSE bounds
    IN IF b1[2][2] < 0
       THEN <<<<b1[1][1], b1[1][2] + b1[2][2]>>, <<b1[2][1], -b1[2][2]>>>>
       ELSE b1

\* the bounds setter of the graphic's class
SetBoundsOf(g, bounds) ==
    IF g.kind = "ellipse"
    THEN [g EXCEPT !.bounds = EllipseSetBounds(bounds)]
    ELSE [g EXCEPT !.bounds = RectangleSetBounds(bounds)]

Nothing == Input(NewOperationItem(BuiltinRegistrations, PluginId), "nothing")

NoReturn == [raised |-> "none", value |-> Nothing]

\* the state of the item when the host calls into it
CalledItem == [operation_item EXCEPT !.log = << >>, !.raised = "none"]

\* the parameters the host sets: those of the description; an unavailable
\* operation keeps what was stored for it
SettableKeys(it) ==
    IF it.operation # NoOperation THEN Range(Properties(it.operation)) ELSE {"sigma"}

ConstructOperationItem ==
    /\ registry = BuiltinRegistrations
    /\ \E id \in OperationIds : operation_item = NewOperationItem(registry, id)
    /\ \E kind \in GraphicKinds : graphic = NewGraphic(kind)
    /\ called = "init"
    /\ returned = NoReturn
    /\ constructed = 0
    /\ latest_factory = BuiltinRegistrations

\* the initial state of this part in the specifications of the other parts
OperationItemUnused ==
    /\ registry = BuiltinRegistrations
    /\ operation_item = NewOperationItem(registry, PluginId)
    /\ graphic = NewGraphic("line")
    /\ called = "init"
    /\ returned = NoReturn
    /\ constructed = 0
    /\ latest_factory = BuiltinRegistrations

SetProperty ==
    \E property_id \in SettableKeys(operation_item) :
        \E value \in KeyValues(property_id) :
            /\ operation_item' = set_property(CalledItem, property_id, value)
            /\ called' = "set_property"
            /\ returned' = NoReturn
            /\ UNCHANGED <<registry, graphic, constructed, latest_factory>>

UpdateDataShapeAndDtype ==
    \E data_shape \in Dimensions \X Dimensions :
        /\ operation_item' = update_data_shape_and_dtype(CalledItem, data_shape)
        /\ called' = "update_data_shape_and_dtype"
        /\ returned' = NoReturn
        /\ UNCHANGED <<registry, graphic, constructed, latest_factory>>

\* set_graphic("graphic", graphic)
AttachGraphic ==
    /\ operation_item' = set_graphic(CalledItem, TRUE, graphic)
    /\ called' = "set_graphic"
    /\ returned' = NoReturn
    /\ UNCHANGED <<registry, graphic, constructed, latest_factory>>

\* set_graphic("graphic", None)
DetachGraphic ==
    /\ operation_item' = set_graphic(CalledItem, FALSE, graphic)
    /\ called' = "set_graphic None"
    /\ returned' = NoReturn
    /\ UNCHANGED <<registry, graphic, constructed, latest_factory>>

\* graphic.start = p: LineGraphic.__set_start and the notification it sends
GraphicSetStart ==
    \E p \in InputPoints :
        /\ graphic.kind = "line"
        /\ graphic' = [graphic EXCEPT !.start = p]
        /\ operation_item' = graphic_notify_set_property(CalledItem, graphic')
        /\ called' = "graphic.start"
        /\ returned' = NoReturn
        /\ UNCHANGED <<registry, constructed, latest_factory>>

\* graphic.end = p: LineGraphic.__set_end and the notification it sends
GraphicSetEnd ==
    \E p \in InputPoints :
        /\ graphic.kind = "line"
        /\ graphic' = [graphic EXCEPT !.end = p]
        /\ operation_item' = graphic_notify_set_property(CalledItem, graphic')
        /\ called' = "graphic.end"
        /\ returned' = NoReturn
        /\ UNCHANGED <<registry, constructed, latest_factory>>

\* graphic.bounds = bounds, on a rectangle or an ellipse
GraphicSetBounds ==
    \E bounds \in InputPoints \X InputPoints :
        /\ graphic.kind \in {"rectangle", "ellipse"}
        /\ graphic' = SetBoundsOf(graphic, bounds)
        /\ operation_item' = graphic_notify_set_property(CalledItem, graphic')
        /\ called' = "graphic.bounds"
        /\ returned' = NoReturn
        /\ UNCHANGED <<registry, constructed, latest_factory>>

\* the item is written to storage and read back: the host goes on with the item read
BuildItem ==
    /\ operation_item' = build(registry, Stored(operation_item), graphic)
    /\ called' = "build"
    /\ returned' = NoReturn
    /\ UNCHANGED <<registry, graphic, constructed, latest_factory>>

\* copy.deepcopy(item): the host goes on with the copy
DeepCopyItem ==
    /\ operation_item' = deepcopy(registry, operation_item, graphic)
    /\ called' = "deepcopy"
    /\ returned' = NoReturn
    /\ UNCHANGED <<registry, graphic, constructed, latest_factory>>

ProcessData ==
    /\ returned' = process_data(operation_item)
    /\ operation_item' = [CalledItem EXCEPT !.raised = returned'.raised]
    /\ called' = "process_data"
    /\ UNCHANGED <<registry, graphic, constructed, latest_factory>>

GetProcessedCalibrations ==
    /\ returned' = get_processed_calibrations(operation_item)
    /\ operation_item' = [CalledItem EXCEPT !.raised = returned'.raised]
    /\ called' = "get_processed_calibrations"
    /\ UNCHANGED <<registry, graphic, constructed, latest_factory>>

GetProcessedIntensityCalibration ==
    /\ returned' = get_processed_intensity_calibration(operation_item)
    /\ operation_item' = [CalledItem EXCEPT !.raised = returned'.raised]
    /\ called' = "get_processed_intensity_calibration"
    /\ UNCHANGED <<registry, graphic, constructed, latest_factory>>

GetProcessedDataShapeAndDtype ==
    /\ returned' = get_processed_data_shape_and_dtype(operation_item)
    /\ operation_item' = [CalledItem EXCEPT !.raised = returned'.raised]
    /\ called' = "get_processed_data_shape_and_dtype"
    /\ UNCHANGED <<registry, graphic, constructed, latest_factory>>

(***************************************************************************)
(* The OperationManager as a state machine                                 *)
(***************************************************************************)

\* bound of the model: the Operation instances constructed
MaxConstructed == 3

\* the ids and the factories the host registers and unregisters
RegisteredIds == {"gaussian-blur-operation", PluginId}
RegisteredFactories == {"GaussianBlurOperation", "Crop2dOperation"}

\* a constructed instance: its class and its serial number
Instance(operation, serial) == [class |-> operation, serial |-> serial]

NoInstance == Instance(NoOperation, 0)

ConstructRegistry ==
    /\ registry = BuiltinRegistrations
    /\ operation_item = NewOperationItem(registry, PluginId)
    /\ graphic = NewGraphic("line")
    /\ called = "init"
    /\ returned = [raised |-> "none", value |-> NoInstance]
    /\ constructed = 0
    /\ latest_factory = BuiltinRegistrations

RegisterOperation ==
    \E operation_id \in RegisteredIds, create_operation_fn \in RegisteredFactories :
        /\ registry' = register_operation(registry, operation_id, create_operation_fn)
        /\ latest_factory' = [latest_factory EXCEPT ![operation_id] = create_operation_fn]
        /\ called' = "register_operation " \o operation_id
        /\ returned' = [raised |-> "none", value |-> NoInstance]
        /\ UNCHANGED <<operation_item, graphic, constructed>>

UnregisterOperation ==
    \E operation_id \in RegisteredIds :
        /\ registry' = unregister_operation(registry, operation_id).registry
        /\ latest_factory' = [latest_factory EXCEPT ![operation_id] = NoFactory]
        /\ called' = "unregister_operation " \o operation_id
        /\ returned' = [raised |-> unregister_operation(registry, operation_id).raised,
                        value |-> NoInstance]
        /\ UNCHANGED <<operation_item, graphic, constructed>>

BuildOperation ==
    \E operation_id \in RegisteredIds :
        LET operation == build_operation(registry, operation_id) IN
        /\ constructed < MaxConstructed
        /\ constructed' = IF operation # NoOperation THEN constructed + 1 ELSE constructed
        /\ returned' = [raised |-> "none",
                        value |-> IF operation # NoOperation
                                  THEN Instance(operation, constructed')
                                  ELSE NoInstance]
        /\ called' = "build_operation " \o operation_id
        /\ UNCHANGED <<registry, operation_item, graphic, latest_factory>>

\* OperationItem(operation_id)
NewItem ==
    \E operation_id \in RegisteredIds :
        /\ constructed < MaxConstructed
        /\ operation_item' = NewOperationItem(registry, operation_id)
        /\ constructed' = IF operation_item'.operation # NoOperation
                          THEN constructed + 1 ELSE constructed
        /\ returned' = [raised |-> "none", value |-> NoInstance]
        /\ called' = "OperationItem " \o operation_id
        /\ UNCHANGED <<registry, graphic, latest_factory>>

(***************************************************************************)
(* Graphics.py: adjust_rectangle_like and the drag of a rectangle-like     *)
(* graphic. The mapping between widget, image and normalized coordinates   *)
(* is the identity; sizes and mouse movements are even, so that every      *)
(* 0.5 * size of the code is exact.                                        *)
(***************************************************************************)

\* bound of the model: a drag keeps the graphic inside 0..MaxCoordinate
MaxCoordinate == 4

Parts == {"top-left", "top-right", "bottom-right", "bottom-left", "all"}

Modifiers == [alt : BOOLEAN, shift : BOOLEAN]

\* the movements of the mouse during a drag
Movements == {<<dy, dx>> : dy \in {-2, 0, 2}, dx \in {-2, 0, 2}}

\* the bounds the host assigns: sizes of either sign
AssignedBounds ==
    {<<<<oy, ox>>, <<sy, sx>>>> : oy \in {0, 2}, ox \in {0, 2},
                                 sy \in {-2, 0, 2}, sx \in {-2, 0, 2}}

NoDrag == [part |-> "none", bounds |-> DefaultBounds]

\* the alt and shift branch of every corner: the dragged corner is moved so
\* that the rectangle around old_center becomes a square
SquareAround(old_center, corner) ==
    LET half_size == <<old_center[1] - corner[1], old_center[2] - corner[2]>> IN
    IF half_size[1] > half_size[2]
    THEN <<old_center[1] + half_size[2], corner[2]>>
    ELSE <<corner[1], old_center[2] + half_size[1]>>

\* mutant: with shift the square takes the larger dimension
Wider(b) == b[2][1] < b[2][2]

\* the test of the shift branches without alt: the height of the dragged
\* bounds exceeds their width ("size will be width")
Taller(b) == b[2][1] > b[2][2]

\* adjust_rectangle_like(mapping, original, current, part, modifiers)
adjust_rectangle_like(original, current, part, modifiers) ==
    LET old_origin == part.bounds[1]
        old_size == part.bounds[2]
        old_center == <<old_origin[1] + old_size[1] \div 2,
                        old_origin[2] + old_size[2] \div 2>>
        delta == <<current[1] - original[1], current[2] - original[2]>>
        Opposite(corner) == <<2 * old_center[1] - corner[1], 2 * old_center[2] - corner[2]>>
        Moved(corner) == IF modifiers.shift THEN SquareAround(old_center, corner) ELSE corner
        Diagonal(top_left, bottom_right) ==
            <<top_left, <<bottom_right[1] - top_left[1], bottom_right[2] - top_left[2]>>>>
        AntiDiagonal(top_right, bottom_left) ==
            <<<<top_right[1], bottom_left[2]>>,
              <<bottom_left[1] - top_right[1], top_right[2] - bottom_left[2]>>>>
    IN
    CASE part.part = "top-left" ->
            IF modifiers.alt
            THEN LET new_top_left == Moved(<<old_origin[1] + delta[1], old_origin[2] + delta[2]>>)
                 IN Diagonal(new_top_left, Opposite(new_top_left))
            ELSE LET b == <<<<old_origin[1] + delta[1], old_origin[2] + delta[2]>>,
                            <<old_size[1] - delta[1], old_size[2] - delta[2]>>>>
                 IN IF ~modifiers.shift THEN b
                    ELSE IF Taller(b)
                    THEN <<<<b[1][1] + b[2][1] - b[2][2], b[1][2]>>, <<b[2][2], b[2][2]>>>>
                    ELSE <<<<b[1][1], b[1][2] + b[2][2] - b[2][1]>>, <<b[2][1], b[2][1]>>>>
      [] part.part = "top-right" ->
            IF modifiers.alt
            THEN LET new_top_right == Moved(<<old_origin[1] + delta[1],
                                              old_origin[2] + old_size[2] + delta[2]>>)
                 IN AntiDiagonal(new_top_right, Opposite(new_top_right))
            ELSE LET b == <<<<old_origin[1] + delta[1], old_origin[2]>>,
                            <<old_size[1] - delta[1], old_size[2] + delta[2]>>>>
                 IN IF ~modifiers.shift THEN b
                    ELSE IF Taller(b)
                    THEN <<<<b[1][1] + b[2][1] - b[2][2], b[1][2]>>, <<b[2][2], b[2][2]>>>>
                    ELSE <<b[1], <<b[2][1], b[2][1]>>>>
      [] part.part = "bottom-right" ->
            IF modifiers.alt
            THEN LET new_bottom_right == Moved(<<old_origin[1] + old_size[1] + delta[1],
                                                 old_origin[2] + old_size[2] + delta[2]>>)
                 IN Diagonal(Opposite(new_bottom_right), new_bottom_right)
            ELSE LET b == <<old_origin, <<old_size[1] + delta[1], old_size[2] + delta[2]>>>>
                 IN IF ~modifiers.shift THEN b
                    ELSE IF Taller(b)
                    THEN <<b[1], <<b[2][2], b[2][2]>>>>
                    ELSE <<b[1], <<b[2][1], b[2][1]>>>>
      [] part.part = "bottom-left" ->
            IF modifiers.alt
            THEN LET new_bottom_left == Moved(<<old_origin[1] + old_size[1] + delta[1],
                                                old_origin[2] + delta[2]>>)
                 IN AntiDiagonal(Opposite(new_bottom_left), new_bottom_left)
            ELSE LET b == <<<<old_origin[1], old_origin[2] + delta[2]>>,
                            <<old_size[1] + delta[1], old_size[2] - delta[2]>>>>
                 IN IF ~modifiers.shift THEN b
                    ELSE IF Taller(b)
                    THEN <<b[1], <<b[2][2], b[2][2]>>>>
                    ELSE <<<<b[1][1], b[1][2] + b[2][2] - b[2][1]>>, <<b[2][1], b[2][1]>>>>
      [] part.part = "all" ->
            <<<<old_origin[1] + delta[1], old_origin[2] + delta[2]>>, old_size>>
      [] OTHER -> <<old_origin, old_size>>

\* the rectangle lies in 0..MaxCoordinate, whatever the sign of its size
InRange(bounds) ==
    \A axis \in {1, 2} :
        /\ bounds[1][axis] \in 0..MaxCoordinate
        /\ bounds[1][axis] + bounds[2][axis] \in 0..MaxCoordinate

ConstructGraphic ==
    /\ \E kind \in {"rectangle", "ellipse"} : graphic = NewGraphic(kind)
    /\ drag = NoDrag
    /\ assigned = DefaultBounds

\* the initial state of this part in the specifications of the other parts
GraphicUnused ==
    /\ drag = NoDrag
    /\ assigned = DefaultBounds

\* graphic.bounds = bounds
AssignBounds ==
    \E bounds \in AssignedBounds :
        /\ graphic' = SetBoundsOf(graphic, bounds)
        /\ assigned' = bounds
        /\ called' = "graphic.bounds"
        /\ UNCHANGED drag

\* RectangleGraphic.build / EllipseGraphic.build: a new graphic is given the
\* bounds that were stored, or the default when none were
BuildGraphic ==
    \E bounds \in {graphic.bounds, DefaultBounds} :
        /\ graphic' = SetBoundsOf(NewGraphic(graphic.kind), bounds)
        /\ assigned' = bounds
        /\ called' = "Graphic.build"
        /\ drag' = NoDrag

\* RectangleGraphic.deepcopy_from / EllipseGraphic.deepcopy_from, on a new graphic
DeepcopyGraphic ==
    /\ graphic' = SetBoundsOf(NewGraphic(graphic.kind), graphic.bounds)
    /\ assigned' = graphic.bounds
    /\ called' = "Graphic.deepcopy_from"
    /\ drag' = NoDrag

\* the host finds the part under the mouse (test) and calls begin_drag
BeginDrag ==
    \E part \in Parts :
        /\ drag = NoDrag
        /\ drag' = [part |-> part, bounds |-> graphic.bounds]
        /\ called' = "begin_drag"
        /\ UNCHANGED <<graphic, assigned>>

\* RectangleGraphic.adjust_part / EllipseGraphic.adjust_part
AdjustPart ==
    \E current \in Movements, modifiers \in Modifiers :
        LET bounds == adjust_rectangle_like(<<0, 0>>, current, drag, modifiers) IN
        /\ drag # NoDrag
        /\ InRange(bounds)
        /\ graphic' = SetBoundsOf(graphic, bounds)
        /\ assigned' = bounds
        /\ called' = "adjust_part"
        /\ UNCHANGED drag

EndDrag ==
    /\ drag # NoDrag
    /\ drag' = NoDrag
    /\ called' = "end_drag"
    /\ UNCHANGED <<graphic, assigned>>

(***************************************************************************)
(* Graphics.py: hit testing.  test(mapping, test_point, move_only) maps   *)
(* the stored geometry to widget coordinates and compares the test point  *)
(* with the handles and the body of the shape.  Widget coordinates are    *)
(* integers here and every comparison of a square root with the radius is *)
(* made on the squares, which is exact.                                    *)
(***************************************************************************)

\* the widget units of a quarter of the image extent under the mapping
WidgetScale == 3

\* the largest coordinate of a tested point, in widget units
MaxWidget == 12

\* the hit radius test() passes to every handle and line test
HandleRadius == 4

\* the coordinates (in quarters of the image extent) of the tested shapes
HitCoordinates == {0, 2}

WidgetCoordinates == 0..MaxWidget

\* mapping.map_point_image_norm_to_widget(p)
map_point_image_norm_to_widget(p) == <<p[1] * WidgetScale, p[2] * WidgetScale>>

\* mapping.map_size_image_norm_to_widget(s)
map_size_image_norm_to_widget(s) == <<s[1] * WidgetScale, s[2] * WidgetScale>>

Square(x) == x * x

\* mutant: a point at exactly the radius counts as close
test_point_inclusive(p1, p2, radius) ==
    Square(p1[1] - p2[1]) + Square(p1[2] - p2[2]) <= Square(radius)

\* Graphic.test_point: sqrt((p1-p2)^2) < radius
test_point(p1, p2, radius) ==
    Square(p1[1] - p2[1]) + Square(p1[2] - p2[2]) < Square(radius)

\* Graphic.get_closest_point_on_line.  The division by the length of the line
\* raises when start = end.  The closest point is returned as the pair of
\* numerators num over the common denominator den = |end - start|^2.
get_closest_point_on_line(start, end, p) ==
    LET c  == <<p[1] - start[1], p[2] - start[2]>>
        v  == <<end[1] - start[1], end[2] - start[2]>>
        vv == Square(v[1]) + Square(v[2])      \* length^2
        vc == v[1] * c[1] + v[2] * c[2]        \* t * length
    IN  IF vv = 0 THEN [raised |-> "ZeroDivisionError", num |-> <<0, 0>>, den |-> 1]
        ELSE IF vc < 0 THEN [raised |-> "", num |-> <<start[1] * vv, start[2] * vv>>, den |-> vv]
        ELSE IF vc > vv THEN [raised |-> "", num |-> <<end[1] * vv, end[2] * vv>>, den |-> vv]
        ELSE [raised |-> "",
              num |-> <<start[1] * vv + v[1] * vc, start[2] * vv + v[2] * vc>>,
              den |-> vv]

\* Graphic.test_line: the distance of p to the closest point is below radius
test_line(start, end, p, radius) ==
    LET cp == get_closest_point_on_line(start, end, p)
    IN  [raised |-> cp.raised,
         close  |-> /\ cp.raised = ""
                    /\ Square(p[1] * cp.den - cp.num[1]) + Square(p[2] * cp.den - cp.num[2])
                           < Square(radius) * Square(cp.den)]

\* Graphic.test_inside_bounds
test_inside_bounds(bounds, p, radius) ==
    /\ p[1] > bounds[1][1]
    /\ p[1] <= bounds[1][1] + bounds[2][1]
    /\ p[2] > bounds[1][2]
    /\ p[2] <= bounds[1][2] + bounds[2][2]

NoPart == "<none>"

\* what a call of test() ended in
Hit(p, move_only, part, raised) ==
    [point |-> p, move_only |-> move_only, part |-> part, raised |-> raised]

\* RectangleGraphic.test and EllipseGraphic.test, which have the same body
RectangleTest(g, p, move_only) ==
    LET origin == map_point_image_norm_to_widget(g.bounds[1])
        size   == map_size_image_norm_to_widget(g.bounds[2])
    IN  IF ~move_only /\ test_point(origin, p, HandleRadius) THEN "top-left"
        ELSE IF ~move_only /\ test_point(<<origin[1], origin[2] + size[2]>>, p, HandleRadius)
            THEN "top-right"
        ELSE IF ~move_only
                /\ test_point(<<origin[1] + size[1], origin[2] + size[2]>>, p, HandleRadius)
            THEN "bottom-right"
        ELSE IF ~move_only /\ test_point(<<origin[1] + size[1], origin[2]>>, p, HandleRadius)
            THEN "bottom-left"
        ELSE IF test_inside_bounds(<<origin, size>>, p, HandleRadius) THEN "all"
        ELSE NoPart

\* LineGraphic.test
LineTest(g, p, move_only) ==
    LET p1 == map_point_image_norm_to_widget(g.start)
        p2 == map_point_image_norm_to_widget(g.end)
        along == test_line(p1, p2, p, HandleRadius)
    IN  IF ~move_only /\ test_point(p1, p, HandleRadius) THEN Hit(p, move_only, "start", "")
        ELSE IF ~move_only /\ test_point(p2, p, HandleRadius) THEN Hit(p, move_only, "end", "")
        ELSE IF along.raised # "" THEN Hit(p, move_only, NoPart, along.raised)
        ELSE IF along.close THEN Hit(p, move_only, "all", "")
        ELSE Hit(p, move_only, NoPart, "")

NoHit == Hit(<<0, 0>>, FALSE, NoPart, "")

\* the shapes whose hit test is made: rectangles and ellipses with the bounds
\* the bounds setter stores (sizes are not negative), lines with any two ends
HitShapes ==
    {[NewGraphic(kind) EXCEPT !.bounds = b] :
        kind \in {"rectangle", "ellipse"},
        b \in {<<<<oy, ox>>, <<h, w>>>> :
                  oy \in HitCoordinates, ox \in HitCoordinates,
                  h \in HitCoordinates, w \in HitCoordinates}}
    \cup
    {[NewGraphic("line") EXCEPT !.start = <<sy, sx>>, !.end = <<ey, ex>>] :
        sy \in HitCoordinates, sx \in HitCoordinates,
        ey \in HitCoordinates, ex \in HitCoordinates}

ConstructHitGraphic ==
    /\ graphic \in HitShapes
    /\ hit = NoHit

\* rectangle.test(mapping, test_point, move_only)
TestRectangle ==
    /\ graphic.kind = "rectangle"
    /\ \E p \in WidgetCoordinates \X WidgetCoordinates, move_only \in BOOLEAN :
          hit' = Hit(p, move_only, RectangleTest(graphic, p, move_only), "")
    /\ UNCHANGED graphic

\* ellipse.test(mapping, test_point, move_only)
TestEllipse ==
    /\ graphic.kind = "ellipse"
    /\ \E p \in WidgetCoordinates \X WidgetCoordinates, move_only \in BOOLEAN :
          hit' = Hit(p, move_only, RectangleTest(graphic, p, move_only), "")
    /\ UNCHANGED graphic

\* line.test(mapping, test_point, move_only)
TestLine ==
    /\ graphic.kind = "line"
    /\ \E p \in WidgetCoordinates \X WidgetCoordinates, move_only \in BOOLEAN :
          hit' = LineTest(graphic, p, move_only)
    /\ UNCHANGED graphic

(***************************************************************************)
(* Symbolic.py: one ComputationVariable with all its fields, its           *)
(* variable_type and its stored form                                       *)
(***************************************************************************)

\* a Python value: its type t and its number; a complex has an imaginary part,
\* a string is named by the number of its text
PyValue(t, re, im) == [t |-> t, re |-> re, im |-> im]

\* the numbers of the values, 0 (False, 0, 0.0, 0j, the first text) and up
MaxNumber == 1
Numbers == 0..MaxNumber

ScalarTypes == {"boolean", "integral", "real", "complex", "string"}

\* ComputationVariable.data_types
data_types == {"data_item", "data", "display_data"}

VariableTypes == ScalarTypes \cup data_types \cup {"region"}

\* the Python type of the values of a scalar value_type
PyTypeOf(value_type) ==
    CASE value_type = "boolean" -> "bool"
      [] value_type = "integral" -> "int"
      [] value_type = "real" -> "float"
      [] value_type = "complex" -> "complex"
      [] value_type = "string" -> "str"

\* the values of a scalar value_type; bool has False and True only
ValuesOf(value_type) ==
    {PyValue(PyTypeOf(value_type), re, im) :
        re \in IF value_type = "boolean" THEN {0, 1} ELSE Numbers,
        im \in IF value_type = "complex" THEN Numbers ELSE {0}}

NoControl == "<none>"

\* ComputationVariable.__init__: the persistent properties of a variable
NewVariable(value_type, value, value_min, value_max, specifier) ==
    [value_type |-> value_type, value |-> value, value_default |-> None,
     value_min |-> value_min, value_max |-> value_max,
     specifier |-> specifier, control_type |-> NoControl]

\* ComputationVariable.control_type_default
control_type_default(value_type) ==
    CASE value_type = "boolean" -> "checkbox"
      [] value_type = "integral" -> "slider"
      [] value_type \in {"real", "complex", "string"} -> "field"
      [] OTHER -> NoControl

\* ComputationVariable.variable_type (getter); a specifier is a dictionary,
\* a function from the keys it has
variable_type(v) ==
    IF v.value_type # NoType THEN v.value_type
    ELSE IF v.specifier # None
    THEN LET specifier == v.specifier[1]
         IN  IF "property" \in DOMAIN specifier THEN specifier["property"]
             ELSE IF "type" \in DOMAIN specifier THEN specifier["type"]
             ELSE NoType
    ELSE NoType

\* what a call of the variable_type setter ended in
TypeSet(v, fired, raised) == [variable |-> v, fired |-> fired, raised |-> raised]

\* the value_default the setter gives a scalar type
TypeDefault(value_type) ==
    CASE value_type = "boolean" -> Some(PyValue("bool", 1, 0))
      [] value_type = "integral" -> Some(PyValue("int", 0, 0))
      [] value_type = "real" -> Some(PyValue("float", 0, 0))
      [] value_type = "complex" -> Some(PyValue("complex", 0, 0))
      [] OTHER -> None

\* the scalar fields cleared by the two reference branches of the setter
ClearScalar(v) ==
    [v EXCEPT !.value_type = NoType, !.control_type = NoControl, !.value_default = None,
              !.value_min = None, !.value_max = None]

\* the body of the setter for a type that differs from the current one.  The
\* specifier the reference branches edit is the stored dictionary itself when
\* there is one (edits made before a failing del stay), else a new {"version": 1}
\* that is stored by the last statement only.
change_variable_type(v, value_type) ==
    IF value_type \in ScalarTypes
    THEN TypeSet([v EXCEPT !.specifier = None, !.value_type = value_type,
                           !.control_type = control_type_default(value_type),
                           !.value_default = TypeDefault(value_type),
                           !.value_min = None, !.value_max = None], 1, "")
    ELSE
    LET v1 == ClearScalar(v)
        s0 == IF v.specifier # None THEN v.specifier[1] ELSE [version |-> "1"]
        Kept(s) == IF v.specifier # None THEN [v1 EXCEPT !.specifier = Some(s)] ELSE v1
        type0 == IF "type" \in DOMAIN s0 THEN s0["type"] ELSE NoType
    IN  IF value_type \in data_types
        THEN IF type0 \notin data_types /\ "uuid" \notin DOMAIN s0
             THEN TypeSet(Kept(s0), 0, "KeyError")
             ELSE LET s1 == IF type0 \notin data_types THEN DictDel(s0, "uuid") ELSE s0
                      s2 == DictSet(s1, "type", "data_item")
                  IN  IF value_type \in {"data", "display_data"}
                      THEN TypeSet([v1 EXCEPT !.specifier =
                                       Some(DictSet(s2, "property", value_type))], 1, "")
                      ELSE IF "property" \notin DOMAIN s2
                      THEN TypeSet(Kept(s2), 0, "KeyError")
                      ELSE TypeSet([v1 EXCEPT !.specifier = Some(DictDel(s2, "property"))],
                                   1, "")
        ELSE \* "region"
             LET s1 == DictSet(s0, "type", value_type)
             IN  IF "uuid" \notin DOMAIN s1 THEN TypeSet(Kept(s1), 0, "KeyError")
                 ELSE IF "property" \notin DOMAIN s1
                 THEN TypeSet(Kept(DictDel(s1, "uuid")), 0, "KeyError")
                 ELSE TypeSet([v1 EXCEPT !.specifier =
                                  Some(DictDel(DictDel(s1, "uuid"), "property"))], 1, "")

\* mutant: the event is fired outside the comparison with the current type
set_variable_type_firing(v, value_type) ==
    IF value_type # variable_type(v) THEN change_variable_type(v, value_type)
    ELSE TypeSet(v, 1, "")

\* ComputationVariable.variable_type (setter)
set_variable_type(v, value_type) ==
    IF value_type # variable_type(v) THEN change_variable_type(v, value_type)
    ELSE TypeSet(v, 0, "")

\* the reference specifiers the host makes: an object by uuid, of a data item
\* also a facet
ReferenceSpecifiers ==
    {[version |-> "1", type |-> "data_item", uuid |-> "o1"],
     [version |-> "1", type |-> "data_item", uuid |-> "o1", property |-> "data"],
     [version |-> "1", type |-> "data_item", uuid |-> "o1", property |-> "display_data"],
     [version |-> "1", type |-> "region", uuid |-> "o1"]}

\* the variables the host constructs: scalar form (with or without a value and
\* a range) and reference form
NewVariables ==
    {NewVariable(t, IF valued THEN Some(PyValue(PyTypeOf(t), 1, 0)) ELSE None,
                 IF ranged THEN Some(PyValue(PyTypeOf(t), 0, 0)) ELSE None,
                 IF ranged THEN Some(PyValue(PyTypeOf(t), 1, 0)) ELSE None, None) :
        t \in ScalarTypes, valued \in BOOLEAN, ranged \in BOOLEAN}
    \cup {NewVariable(NoType, None, None, None, Some(s)) : s \in ReferenceSpecifiers}

NoTypeCall == [value_type |-> NoType, was |-> NoType, fired |-> 0, raised |-> ""]

ConstructVariable ==
    /\ computation_variable \in NewVariables
    /\ type_call = NoTypeCall

\* variable.variable_type = value_type
SetVariableType ==
    \E value_type \in VariableTypes :
        LET done == set_variable_type(computation_variable, value_type)
        IN  /\ computation_variable' = done.variable
            /\ type_call' = [value_type |-> value_type,
                             was |-> variable_type(computation_variable),
                             fired |-> done.fired, raised |-> done.raised]

\* the initial state of this part in the specifications of the other parts
VariableUnused ==
    /\ computation_variable = NewVariable(NoType, None, None, None, None)
    /\ type_call = NoTypeCall

(***************************************************************************)
(* Symbolic.py: the stored form of a ComputationVariable.  The loops over  *)
(* the persistent properties are PersistentObject's: each property is      *)
(* written by its writer, or as it is when it has none and is not None,    *)
(* and read by its reader, or as it is stored.  A stored dictionary is a   *)
(* record of optional entries: a key that is absent holds None.            *)
(***************************************************************************)

\* bool(x), int(x), float(x), complex(x), str(x) of a value of the
\* variable's type or of a number type that converts to it
py_bool(x) == PyValue("bool", IF x.re # 0 \/ x.im # 0 THEN 1 ELSE 0, 0)
py_int(x) == PyValue("int", x.re, 0)
py_float(x) == PyValue("float", x.re, 0)
py_complex(x) == PyValue("complex", x.re, x.im)
py_str(x) == PyValue("str", x.re, 0)

\* ComputationVariable.__value_writer: what is stored under the key, if anything
value_writer(value_type, value) ==
    IF value = None THEN None
    ELSE CASE value_type = "boolean" -> Some(py_bool(value[1]))
           [] value_type = "integral" -> Some(py_int(value[1]))
           [] value_type = "real" -> Some(py_float(value[1]))
           [] value_type = "complex" ->
                Some(PyValue("tuple", py_complex(value[1]).re, py_complex(value[1]).im))
           [] value_type = "string" -> Some(py_str(value[1]))
           [] OTHER -> None

\* ComputationVariable.__value_reader; complex(*raw_value) takes the pair apart
value_reader(value_type, raw_value) ==
    IF raw_value = None THEN None
    ELSE CASE value_type = "boolean" -> Some(py_bool(raw_value[1]))
           [] value_type = "integral" -> Some(py_int(raw_value[1]))
           [] value_type = "real" -> Some(py_float(raw_value[1]))
           [] value_type = "complex" ->
                Some(PyValue("complex", raw_value[1].re, raw_value[1].im))
           [] value_type = "string" -> Some(py_str(raw_value[1]))
           [] OTHER -> None

ValueKeys == {"value", "value_default", "value_min", "value_max"}

\* ComputationVariable.write_to_dict
write_to_dict(v) ==
    [value_type    |-> v.value_type,
     value         |-> value_writer(v.value_type, v.value),
     value_default |-> value_writer(v.value_type, v.value_default),
     value_min     |-> value_writer(v.value_type, v.value_min),
     value_max     |-> value_writer(v.value_type, v.value_max),
     specifier     |-> v.specifier,
     control_type  |-> v.control_type]

\* the orders in which the loop over the stored properties can meet the keys
\* the coercion depends on
TypedKeys == ValueKeys \cup {"value_type"}

KeyOrders ==
    {order \in [1..Cardinality(TypedKeys) -> TypedKeys] :
        \A i, j \in DOMAIN order : order[i] = order[j] => i = j}

\* PersistentProperty.read_from_dict of one property
ReadProperty(v, properties, key) ==
    IF key \in ValueKeys
    THEN [v EXCEPT ![key] = value_reader(v.value_type, properties[key])]
    ELSE [v EXCEPT ![key] = properties[key]]

RECURSIVE ReadProperties(_, _, _)
ReadProperties(v, properties, order) ==
    IF order = << >> THEN v
    ELSE ReadProperties(ReadProperty(v, properties, Head(order)), properties, Tail(order))

\* mutant: value_type is read where the loop meets it
read_from_dict_in_key_order(properties, order) ==
    ReadProperties(NewVariable(NoType, None, None, None, None), properties,
                   order \o <<"specifier", "control_type">>)

\* ComputationVariable.read_from_dict, into a variable the factory constructed
read_from_dict(properties, order) ==
    ReadProperties(ReadProperty(NewVariable(NoType, None, None, None, None),
                                properties, "value_type"),
                   properties, order \o <<"specifier", "control_type">>)

OptionalValuesOf(value_type) == {None} \cup {Some(x) : x \in ValuesOf(value_type)}

\* scalar variables with values of their type
ScalarVariables ==
    UNION {[value_type : {t}, value : OptionalValuesOf(t),
            value_default : OptionalValuesOf(t),
            value_min : OptionalValuesOf(t), value_max : OptionalValuesOf(t),
            specifier : {None}, control_type : {control_type_default(t)}] :
           t \in ScalarTypes}

ConstructStoredVariable ==
    /\ computation_variable \in ScalarVariables
    /\ type_call = NoTypeCall
    /\ written = None
    /\ read_back = None

\* properties = variable.write_to_dict()
WriteToDict ==
    /\ written' = Some(write_to_dict(computation_variable))
    /\ UNCHANGED <<computation_variable, type_call, read_back>>

\* ComputationVariable().read_from_dict(properties)
ReadFromDict ==
    /\ written # None
    /\ \E order \in KeyOrders : read_back' = Some(read_from_dict(written[1], order))
    /\ UNCHANGED <<computation_variable, type_call, written>>

\* the initial state of this part in the specifications of the other parts
StoredUnused ==
    /\ written = None
    /\ read_back = None

(***************************************************************************)
(* Operation.py: OperationPropertyBinding.  The binding observes its       *)
(* source, an OperationItem; add_task hands the update of the target to    *)
(* the queue of the UI thread, which runs the tasks later.                 *)
(***************************************************************************)

\* bound of the model: the tasks that wait for the UI thread
MaxTasks == 2

\* values.get(property_name): None when the key is absent or holds None (None
\* is assigned to the integer fields only)
values_get(values, property_name) ==
    IF PropertyType(property_name) = "integer-field" /\ values[property_name] = Some(PyNone)
    THEN None
    ELSE values[property_name]

\* OperationPropertyBinding.__init__: the binding keeps a copy of the values
NewPropertyBinding(source, property_name) ==
    [property_name |-> property_name, values |-> source.values, tasks |-> << >>]

\* mutant: the copy of the values is not refreshed after an update is scheduled
property_changed_keeping_copy(b, sender_is_source, property, property_value, source_values) ==
    IF sender_is_source /\ property = "values"
    THEN LET new_value == values_get(property_value, b.property_name)
             old_value == values_get(b.values, b.property_name)
         IN  IF new_value # old_value
             THEN [b EXCEPT !.tasks = Append(@, new_value)]
             ELSE b
    ELSE b

\* OperationPropertyBinding.property_changed
property_changed(b, sender_is_source, property, property_value, source_values) ==
    IF sender_is_source /\ property = "values"
    THEN LET new_value == values_get(property_value, b.property_name)
             old_value == values_get(b.values, b.property_name)
         IN  IF new_value # old_value
             THEN [b EXCEPT !.tasks = Append(@, new_value), !.values = source_values]
             ELSE b
    ELSE b

\* Storage.StorageBase.notify_set_property, seen from the binding: the observer
\* is told of every property the item notified during the call, in order
RECURSIVE Deliver(_, _, _)
Deliver(b, it, entries) ==
    IF entries = << >> THEN b
    ELSE LET told ==
                 IF Head(entries) = "property_changed values"
                 THEN property_changed(b, TRUE, "values", it.values, it.values)
                 ELSE IF Head(entries) = "property_changed enabled"
                 THEN property_changed(b, TRUE, "enabled", it.enabled, it.values)
                 ELSE b
         IN  Deliver(told, it, Tail(entries))

\* OperationItem.__set_enabled
set_enabled(it, enabled) ==
    item_notify_set_property([it EXCEPT !.enabled = enabled], "enabled")

NoWatch ==
    [seen |-> None, was_seen |-> None, notified |-> FALSE, scheduled |-> FALSE,
     update |-> None, previous_update |-> None, other_key |-> FALSE, same_value |-> FALSE]

\* history of the binding: the watched value at the last values notification
\* (seen, and was_seen before the last call), whether the last call notified
\* values and scheduled an update, the two updates scheduled last, and whether
\* the last call was a set_property of another key or of the value the key had
Watch(w, b, it, other_key, same_value) ==
    LET b1 == Deliver(b, it, it.log)
        notified == "property_changed values" \in Range(it.log)
        scheduled == Len(b1.tasks) > Len(b.tasks)
    IN  [seen |-> IF notified THEN values_get(it.values, b.property_name) ELSE w.seen,
         was_seen |-> w.seen,
         notified |-> notified,
         scheduled |-> scheduled,
         update |-> IF scheduled THEN Some(b1.tasks[Len(b1.tasks)]) ELSE w.update,
         previous_update |-> IF scheduled THEN w.update ELSE w.previous_update,
         other_key |-> other_key,
         same_value |-> same_value]

\* an OperationItem and a binding to one of its parameters
ConstructPropertyBinding ==
    /\ registry = BuiltinRegistrations
    /\ \E id \in {"resample-operation", "gaussian-blur-operation"} :
          operation_item = NewOperationItem(registry, id)
    /\ graphic = NewGraphic("line")
    /\ called = "init"
    /\ returned = NoReturn
    /\ constructed = 0
    /\ latest_factory = BuiltinRegistrations
    /\ \E property_name \in SettableKeys(operation_item) :
          /\ property_binding = NewPropertyBinding(operation_item, property_name)
          /\ watched = [NoWatch EXCEPT
                           !.seen = values_get(operation_item.values, property_name)]

\* the host's call on the item has been made: the binding is told
BindingTold(other_key, same_value) ==
    /\ property_binding' = Deliver(property_binding, operation_item', operation_item'.log)
    /\ watched' = Watch(watched, property_binding, operation_item', other_key, same_value)
    /\ UNCHANGED <<registry, graphic, constructed, latest_factory>>

\* item.set_property(property_id, value), on an item with a binding
BoundSetProperty ==
    /\ Len(property_binding.tasks) < MaxTasks
    /\ \E property_id \in SettableKeys(operation_item) :
          \E value \in KeyValues(property_id) :
              /\ operation_item' = set_property(CalledItem, property_id, value)
              /\ BindingTold(property_id # property_binding.property_name,
                             operation_item.values[property_id] = Some(value))
    /\ called' = "set_property"
    /\ returned' = NoReturn

\* item.update_data_shape_and_dtype(data_shape, data_dtype), on an item with a binding
BoundUpdateDataShapeAndDtype ==
    /\ \E data_shape \in Dimensions \X Dimensions :
          operation_item' = update_data_shape_and_dtype(CalledItem, data_shape)
    /\ BindingTold(FALSE, FALSE)
    /\ called' = "update_data_shape_and_dtype"
    /\ returned' = NoReturn

\* item.enabled = enabled, on an item with a binding
BoundSetEnabled ==
    /\ \E enabled \in BOOLEAN : operation_item' = set_enabled(CalledItem, enabled)
    /\ BindingTold(FALSE, FALSE)
    /\ called' = "set_enabled"
    /\ returned' = NoReturn

\* the UI thread runs the tasks that wait: update_target(new_value) for each
RunTasks ==
    /\ property_binding.tasks # << >>
    /\ property_binding' = [property_binding EXCEPT !.tasks = << >>]
    /\ UNCHANGED <<operationVars, watched>>

\* the initial state of this part in the specifications of the other parts
PropertyBindingUnused ==
    /\ property_binding = NewPropertyBinding(NewOperationItem(BuiltinRegistrations, PluginId),
                                             "sigma")
    /\ watched = NoWatch

(***************************************************************************)
(* Operation.py: Resample2dOperation.  Data is modelled by its shape and   *)
(* by whether it still holds the values of the input.                      *)
(***************************************************************************)

\* Operation.get_property: the attribute when the instance has one
get_property(attributes, property_id, default_value) ==
    IF attributes[property_id] # None THEN attributes[property_id][1] ELSE default_value

\* Resample2dOperation.process_data_copy; Image.scaled gives data of the shape asked for
resample_process_data_copy(attributes, data_shape) ==
    LET height == get_property(attributes, "height", data_shape[1])
        width  == get_property(attributes, "width", data_shape[2])
    IN  IF data_shape[2] = width /\ data_shape[1] = height
        THEN [data |-> "copy of the input", shape |-> data_shape]
        ELSE [data |-> "scaled", shape |-> <<height, width>>]

\* Resample2dOperation.get_processed_data_shape_and_dtype, for data that is not RGB
resample_get_processed_data_shape_and_dtype(attributes, data_shape) ==
    LET height == get_property(attributes, "height", data_shape[1])
        width  == get_property(attributes, "width", data_shape[2])
    IN  [data |-> "none", shape |-> <<height, width>>]

\* what a call on the Resample item returned for an input of that shape
Resampled(data_shape, value) ==
    [raised |-> "none", input |-> data_shape, value |-> value]

ConstructResample ==
    /\ registry = BuiltinRegistrations
    /\ operation_item = NewOperationItem(registry, "resample-operation")
    /\ graphic = NewGraphic("line")
    /\ called = "init"
    /\ returned = Resampled(<<1, 1>>, [data |-> "none", shape |-> <<1, 1>>])
    /\ constructed = 0
    /\ latest_factory = BuiltinRegistrations

\* item.set_property(property_id, value) on the Resample item
ResampleSetProperty ==
    /\ \E property_id \in {"width", "height"}, value \in Dimensions :
          operation_item' = set_property(CalledItem, property_id, value)
    /\ called' = "set_property"
    /\ UNCHANGED <<registry, graphic, returned, constructed, latest_factory>>

\* item.update_data_shape_and_dtype(data_shape, data_dtype) on the Resample item;
\* the call returns nothing, and the shape it was given is kept as its input
ResampleUpdateDataShapeAndDtype ==
    /\ \E data_shape \in Dimensions \X Dimensions :
          /\ operation_item' = update_data_shape_and_dtype(CalledItem, data_shape)
          /\ returned' = Resampled(data_shape, [data |-> "none", shape |-> << >>])
    /\ called' = "update_data_shape_and_dtype"
    /\ UNCHANGED <<registry, graphic, constructed, latest_factory>>

\* item.process_data(data): operation.process_data_in_place(data)
ResampleProcessData ==
    /\ \E data_shape \in Dimensions \X Dimensions :
          returned' = Resampled(data_shape,
                          resample_process_data_copy(operation_item.attributes, data_shape))
    /\ operation_item' = CalledItem
    /\ called' = "process_data"
    /\ UNCHANGED <<registry, graphic, constructed, latest_factory>>

\* item.get_processed_data_shape_and_dtype(data_shape, data_dtype)
ResampleGetProcessedDataShapeAndDtype ==
    /\ \E data_shape \in Dimensions \X Dimensions :
          returned' = Resampled(data_shape,
                          resample_get_processed_data_shape_and_dtype(
                              operation_item.attributes, data_shape))
    /\ operation_item' = CalledItem
    /\ called' = "get_processed_data_shape_and_dtype"
    /\ UNCHANGED <<registry, graphic, constructed, latest_factory>>

(***************************************************************************)
(* Graphics.py: fit_to_aspect_ratio                                        *)
(*                                                                         *)
(* A rectangle is <<origin, size>> with origin = <<y, x>> and size =       *)
(* <<height, width>>.  The function computes in floating point; the model  *)
(* computes the same quotients exactly: an aspect ratio is num / den, and  *)
(* a returned rectangle holds the numerators of its coordinates over the   *)
(* common denominator den.                                                 *)
(***************************************************************************)

\* bound of the model: heights, widths and the terms of the ratio are 1..MaxExtent
MaxExtent == 3

\* the sizes of the rectangles, with the height 10 and the width 20 of the worked example
Extents == (1..MaxExtent) \cup {10, 20}

FitOrigins == {0, 1}

Ratio(num, den) == [num |-> num, den |-> den]

AspectRatios == {Ratio(n, d) : n \in 1..MaxExtent, d \in 1..MaxExtent}

\* (new_origin, new_size) as fractions over den
Fitted(den, origin, size) == [den |-> den, origin |-> origin, size |-> size]

\* the function with the test of the two branches reversed
fit_to_aspect_ratio_reversed(rect, aspect_ratio) ==
    LET n == aspect_ratio.num
        d == aspect_ratio.den
        y == rect[1][1]
        x == rect[1][2]
        h == rect[2][1]
        w == rect[2][2]
    IN IF w * d < n * h
       THEN Fitted(2 * d, <<2 * d * y, 2 * d * x + (d * w - n * h)>>, <<2 * d * h, 2 * n * h>>)
       ELSE Fitted(2 * n, <<2 * n * y + (n * h - d * w), 2 * n * x>>, <<2 * d * w, 2 * n * w>>)

\* fit_to_aspect_ratio(rect, aspect_ratio)
fit_to_aspect_ratio(rect, aspect_ratio) ==
    LET n == aspect_ratio.num
        d == aspect_ratio.den
        y == rect[1][1]
        x == rect[1][2]
        h == rect[2][1]
        w == rect[2][2]
    IN \* rect[1][1] > aspect_ratio * rect[1][0]
       IF w * d > n * h
       THEN \* new_size = (height, height * aspect_ratio);
            \* new_origin = (y, x + 0.5 * (width - new_size[1]))
            Fitted(2 * d, <<2 * d * y, 2 * d * x + (d * w - n * h)>>, <<2 * d * h, 2 * n * h>>)
       ELSE \* new_size = (width / aspect_ratio, width);
            \* new_origin = (y + 0.5 * (height - new_size[0]), x)
            Fitted(2 * n, <<2 * n * y + (n * h - d * w), 2 * n * x>>, <<2 * d * w, 2 * n * w>>)

NoFit == [rect |-> <<<<0, 0>>, <<1, 1>>>>, aspect_ratio |-> Ratio(1, 1), result |-> None]

\* the caller's rectangle and ratio
ConstructFit ==
    \E y \in FitOrigins, x \in FitOrigins, h \in Extents, w \in Extents, r \in AspectRatios :
        fit = [rect |-> <<<<y, x>>, <<h, w>>>>, aspect_ratio |-> r, result |-> None]

\* a call of fit_to_aspect_ratio
FitToAspectRatio ==
    /\ fit.result = None
    /\ fit' = [fit EXCEPT !.result = Some(fit_to_aspect_ratio(fit.rect, fit.aspect_ratio))]

(***************************************************************************)
(* Symbolic.py: Computation.evaluate_data                                  *)
(***************************************************************************)

\* str(e) of the AttributeError an attribute read raises
AttributeErrorText(type, attribute) == <<type, "has no attribute", attribute>>

\* the first attribute of the result the try block cannot read, if any
FirstUnreadable(type) ==
    LET unreadable == {i \in 1..Len(Facets) : Facets[i] \notin Attributes(type)} IN
    IF unreadable = {} THEN None
    ELSE Some(Facets[CHOOSE i \in unreadable : \A j \in unreadable : i <= j])

\* DataAndMetadata.DataAndMetadata(lambda: data, ...): a new wrapper of the data
Repackaged(data) == [data |-> data, type |-> "DataAndMetadata"]

EvaluatedData(c, returned_value) == [c |-> c, ret |-> returned_value]

\* mutant: the successful path leaves evaluate_error as it is
evaluate_data_keeping_error(c, vs, os) ==
    LET c1 == Evaluate(c, vs, os)
        unreadable == FirstUnreadable(c1.result_type)
    IN IF c1.raised # "none" THEN EvaluatedData(c1, None)
       ELSE IF unreadable = None
       THEN EvaluatedData(c1, Some(Repackaged(c1.data_and_metadata[1])))
       ELSE EvaluatedData(
                [c1 EXCEPT !.evaluate_error = AttributeErrorText(c1.result_type, unreadable[1])],
                None)

\* Computation.evaluate_data: evaluate() is called outside the try block; inside
\* it the data attribute is read, evaluate_error is set to None, and the other
\* attributes are read for the new wrapper; the first read that fails ends in
\* the except clause
evaluate_data(c, vs, os) ==
    LET c1 == Evaluate(c, vs, os)
        unreadable == FirstUnreadable(c1.result_type)
    IN IF c1.raised # "none" THEN EvaluatedData(c1, None)
       ELSE IF unreadable = None
       THEN EvaluatedData([c1 EXCEPT !.evaluate_error = NoText],
                          Some(Repackaged(c1.data_and_metadata[1])))
       ELSE EvaluatedData(
                [c1 EXCEPT !.evaluate_error = AttributeErrorText(c1.result_type, unreadable[1])],
                None)

\* the host calls evaluate_data()
HostEvaluateData ==
    /\ computation' = evaluate_data(Called, cvars, objs).c
    /\ op' = Op("evaluate_data", "")
    /\ ret' = evaluate_data(Called, cvars, objs).ret
    /\ UNCHANGED <<cvars, objs, binding>>

(***************************************************************************)
(* A listener of variable_inserted_event and variable_removed_event        *)
(***************************************************************************)

InsertAt(s, index, x) == SubSeq(s, 1, index) \o <<x>> \o SubSeq(s, index + 1, Len(s))

\* count = self.item_count("variables"), the index add_variable fires
item_count(c) == Len(c.variables)

\* index = self.item_index("variables", variable), the index remove_variable fires
item_index(c, u) == IndexOf(c.variables, u) - 1

\* the listener inserts the variable at the index of a variable_inserted_event
\* (indexes count from 0, places of a sequence from 1)
MirrorInserted(s, fired, index, u) ==
    IF fired /\ index <= Len(s) THEN InsertAt(s, index, u) ELSE s

\* the listener deletes the entry at the index of a variable_removed_event
MirrorRemoved(s, fired, index) ==
    IF fired /\ index < Len(s) THEN RemoveAt(s, index + 1) ELSE s

\* the listener starts from the variables of the Computation the host has bound
MirroredBind ==
    /\ Bind
    /\ mirror' = computation'.variables

\* add_variable, heard by the listener
MirroredAddVariable ==
    /\ AddVariable
    /\ mirror' = MirrorInserted(mirror, "variable_inserted_event" \in Range(computation'.log),
                                item_count(computation), op'.target)

\* remove_variable, heard by the listener
MirroredRemoveVariable ==
    /\ RemoveVariable
    /\ mirror' = MirrorRemoved(mirror, "variable_removed_event" \in Range(computation'.log),
                               item_index(computation, op'.target))

(***************************************************************************)
(* Symbolic.py: the deleted() listener of __bind_variable                  *)
(***************************************************************************)

\* deleted_event of a host object: deleted() runs once for every open listener
\* the Computation holds on it, and fires cascade_delete_event when the
\* variable's cascade_delete is set at that moment
RECURSIVE ObjectDeletedEvent(_, _, _, _)
ObjectDeletedEvent(c, vs, o, us) ==
    IF us = {} THEN c
    ELSE LET u == CHOOSE x \in us : TRUE
             listening == /\ u \in c.bound_item_deleted_event_listeners
                          /\ u \in DOMAIN c.bound_items
                          /\ c.bound_items[u] = [kind |-> "object", id |-> o]
         IN ObjectDeletedEvent(IF listening /\ vs[u].cascade_delete
                               THEN Log(c, <<"cascade_delete_event">>)
                               ELSE c,
                               vs, o, us \ {u})

\* variable.cascade_delete = flag, as create_object does after add_variable
SetCascadeDelete ==
    \E u \in Range(computation.variables), flag \in BOOLEAN :
        /\ cvars' = [cvars EXCEPT ![u].cascade_delete = flag]
        /\ computation' =
              VariablePropertyChanged(Called, cvars', objs, u, NotifiedKeys("cascade_delete"))
        /\ op' = Op("set_cascade_delete", u)
        /\ ret' = None
        /\ UNCHANGED <<objs, binding>>

\* the host gets an object it did not have; its uuid is not one of an object
\* that was deleted while the Computation holds an item bound to it
ObjectCreated ==
    \E o \in ObjIds :
        /\ ~objs[o].exists
        /\ \A u \in DOMAIN computation.bound_items : computation.bound_items[u].id # o
        /\ objs' = [objs EXCEPT ![o].exists = TRUE]
        /\ computation' = Called
        /\ op' = Op("object_created", o)
        /\ ret' = None
        /\ UNCHANGED <<cvars, binding>>

\* the host deletes an object, whose deleted_event fires
ObjectDeleted ==
    \E o \in ObjIds :
        /\ objs[o].exists
        /\ objs' = [objs EXCEPT ![o].exists = FALSE]
        /\ computation' = ObjectDeletedEvent(Called, cvars, o, VarIds)
        /\ op' = Op("object_deleted", o)
        /\ ret' = None
        /\ UNCHANGED <<cvars, binding>>

(***************************************************************************)
(* Graphics.py: adjust_rectangle_like as a function of its arguments       *)
(***************************************************************************)

\* the bounds a drag starts from are stored bounds, whose sizes are not negative;
\* the sizes are even, so that the center (origin + size * 0.5) is a whole pixel
DragStartBounds ==
    {<<<<oy, ox>>, <<sy, sx>>>> : oy \in {0, 2}, ox \in {0, 2},
                                 sy \in {0, 2, One}, sx \in {0, 2, One}}

\* current - original: the mouse may be dragged beyond the opposite corner
Deltas == {<<dy, dx>> : dy \in {-4, -2, 0, 2, 4}, dx \in {-4, -2, 0, 2, 4}}

\* a part identifier that is none of the five the function knows
UnknownPart == "rotate"

Adjusted(part, delta, modifiers, result) ==
    [part |-> part, delta |-> delta, modifiers |-> modifiers, result |-> result]

NoAdjust == Adjusted(NoDrag, <<0, 0>>, [alt |-> FALSE, shift |-> FALSE], None)

ConstructAdjust ==
    \E bounds \in DragStartBounds :
        adjusted = Adjusted([part |-> "none", bounds |-> bounds], <<0, 0>>,
                            [alt |-> FALSE, shift |-> FALSE], None)

\* mutant: original and current are passed in each other's place
AdjustRectangleLikeReversed ==
    \E name \in Parts \cup {UnknownPart}, delta \in Deltas, modifiers \in Modifiers :
        LET part == [part |-> name, bounds |-> adjusted.part.bounds] IN
        /\ adjusted.result = None
        /\ adjusted' = Adjusted(part, delta, modifiers,
                                Some(adjust_rectangle_like(delta, <<0, 0>>, part, modifiers)))

\* a call adjust_rectangle_like(mapping, original, current, part, modifiers)
AdjustRectangleLike ==
    \E name \in Parts \cup {UnknownPart}, delta \in Deltas, modifiers \in Modifiers :
        LET part == [part |-> name, bounds |-> adjusted.part.bounds] IN
        /\ adjusted.result = None
        /\ adjusted' = Adjusted(part, delta, modifiers,
                                Some(adjust_rectangle_like(<<0, 0>>, delta, part, modifiers)))

(***************************************************************************)
(* Graphics.py: the drag of a line.  begin_drag returns (start, end), and  *)
(* adjust_part moves one endpoint to the pointer, or the whole line by the *)
(* movement of the pointer.  Points are (y, x) pairs; the mapping between  *)
(* widget, image and normalised coordinates is the scale One.              *)
(***************************************************************************)

LineParts == {"start", "end", "all"}

\* the positions of the pointer on the image
Pointers == {<<y, x>> : y \in {0, 2, One}, x \in {0, 2, One}}

\* the positions the pointer is pressed at
Pressed == {Point(0), Point(2)}

abs(x) == IF x < 0 THEN -x ELSE x

\* mutant: the endpoint is aligned along the axis of the smaller distance
shift_snapped_across(p_image, other_image) ==
    IF abs(p_image[1] - other_image[1]) < abs(p_image[2] - other_image[2])
    THEN <<p_image[1], other_image[2]>>
    ELSE <<other_image[1], p_image[2]>>

\* the shift branch of the parts "start" and "end": the pointer is moved onto
\* the row or the column of the other endpoint
shift_snapped(p_image, other_image) ==
    IF abs(p_image[1] - other_image[1]) > abs(p_image[2] - other_image[2])
    THEN <<p_image[1], other_image[2]>>
    ELSE <<other_image[1], p_image[2]>>

\* LineGraphic.adjust_part(mapping, original, current, part, modifiers): the
\* graphic after the call; part.bounds is the (start, end) of begin_drag
line_adjust_part(g, original, current, part, modifiers) ==
    IF part.part = "start"
    THEN [g EXCEPT !.start = IF modifiers.shift THEN shift_snapped(current, g.end)
                             ELSE current]
    ELSE IF part.part = "end"
    THEN [g EXCEPT !.end = IF modifiers.shift THEN shift_snapped(current, g.start)
                           ELSE current]
    ELSE IF part.part = "all"
    THEN [g EXCEPT !.start = <<part.bounds[1][1] + (current[1] - original[1]),
                               part.bounds[1][2] + (current[2] - original[2])>>,
                   !.end = <<part.bounds[2][1] + (current[1] - original[1]),
                             part.bounds[2][2] + (current[2] - original[2])>>]
    ELSE g

OnImage(p) == p[1] \in 0..MaxCoordinate /\ p[2] \in 0..MaxCoordinate

ConstructLine ==
    /\ graphic = NewGraphic("line")
    /\ drag = NoDrag
    /\ assigned = DefaultBounds

\* LineGraphic.begin_drag
LineBeginDrag ==
    \E part \in LineParts :
        /\ drag = NoDrag
        /\ drag' = [part |-> part, bounds |-> <<graphic.start, graphic.end>>]
        /\ UNCHANGED <<graphic, adjusted>>

\* LineGraphic.adjust_part during the drag
LineAdjustPart ==
    \E original \in Pressed, current \in Pointers, modifiers \in Modifiers :
        LET line == line_adjust_part(graphic, original, current, drag, modifiers) IN
        /\ drag # NoDrag
        /\ OnImage(line.start)
        /\ OnImage(line.end)
        /\ graphic' = line
        /\ adjusted' = Adjusted(drag, current, modifiers, Some(<<line.start, line.end>>))
        /\ UNCHANGED drag

LineEndDrag ==
    /\ drag # NoDrag
    /\ drag' = NoDrag
    /\ UNCHANGED <<graphic, adjusted>>

\* RectangleGraphic.adjust_part / EllipseGraphic.adjust_part, called during the
\* drag with a part identifier that adjust_rectangle_like does not know
AdjustUnrecognizedPart ==
    \E current \in Movements, modifiers \in Modifiers :
        LET part == [part |-> UnknownPart, bounds |-> drag.bounds]
            bounds == adjust_rectangle_like(<<0, 0>>, current, part, modifiers)
        IN /\ drag # NoDrag
           /\ graphic' = SetBoundsOf(graphic, bounds)
           /\ assigned' = bounds
           /\ called' = "adjust_part(unrecognized)"
           /\ UNCHANGED drag

(***************************************************************************)
(* Symbolic.py: evaluate() on a thread of its own.  The docstring of       *)
(* Computation has the host call evaluate "on thread" in response to       *)
(* needs_update_event, while the changed_event of a bound object fires on  *)
(* the thread that changes the object.  evaluate() and the parse it runs   *)
(* are therefore taken statement by statement; needs_update() is three     *)
(* assignments and is taken as one step.                                   *)
(***************************************************************************)

NoOutcome == [data_and_metadata |-> None, error_text |-> NoText, result_type |-> "NoneType"]

\* no evaluate() is running
NoParse == [pc |-> "idle", outcome |-> NoOutcome, overlapped |-> FALSE]

\* evaluate(): needs_update = False, then the test of __needs_parse and, in
\* __parse_expression, the test of the expression
EvaluateEnter ==
    LET c1 == Log([Called EXCEPT !.needs_update = FALSE], <<"evaluate">>) IN
    /\ parse.pc = "idle"
    /\ computation' = c1
    /\ parse' = [pc |-> IF c1.needs_parse /\ c1.original_expression \notin {NoExpression, ""}
                        THEN "read" ELSE "return",
                 outcome |-> NoOutcome,
                 overlapped |-> FALSE]
    /\ op' = Op("evaluating", "")
    /\ ret' = None
    /\ UNCHANGED <<cvars, objs, binding>>

\* __parse_expression: the values of the resolved objects are read into g and
\* the code is executed on them
ParseRead ==
    /\ parse.pc = "read"
    /\ parse' = [parse EXCEPT
                    !.pc = "store",
                    !.outcome = ParseOutcome(computation, cvars, objs,
                                             computation.original_expression)]
    /\ UNCHANGED computationVars

\* self.__data_and_metadata = data_and_metadata; self.error_text = error_text
ParseStore ==
    /\ parse.pc = "store"
    /\ computation' = Log([computation EXCEPT
                              !.data_and_metadata = parse.outcome.data_and_metadata,
                              !.result_type = parse.outcome.result_type,
                              !.error_text = parse.outcome.error_text],
                          <<"parse", "computation_mutated_event">>)
    /\ parse' = [parse EXCEPT !.pc = "clear"]
    /\ UNCHANGED <<cvars, objs, op, ret, binding>>

\* self.__needs_parse = False
ParseClear ==
    /\ parse.pc = "clear"
    /\ computation' = [computation EXCEPT !.needs_parse = FALSE]
    /\ parse' = [parse EXCEPT !.pc = "return"]
    /\ UNCHANGED <<cvars, objs, op, ret, binding>>

\* return self.__data_and_metadata
EvaluateReturn ==
    /\ parse.pc = "return"
    /\ ret' = computation.data_and_metadata
    /\ op' = Op("evaluate", "")
    /\ parse' = [parse EXCEPT !.pc = "idle"]
    /\ UNCHANGED <<computation, cvars, objs, binding>>

\* the data of a host object changes on another thread and its changed_event
\* fires there: needs_update() runs between two statements of evaluate()
ChangedOnOtherThread ==
    \E o \in ObjIds, value \in Values :
        /\ objs[o].exists
        /\ objs' = [objs EXCEPT ![o].value = value]
        /\ computation' = ObjectChangedEvent(Called, o, VarIds)
        /\ op' = Op("object_changed", o)
        /\ parse' = [parse EXCEPT !.overlapped = @ \/ parse.pc # "idle"]
        /\ UNCHANGED <<cvars, ret, binding>>

\* a Computation read back from storage: the expression is a and the variable a
\* names a data item of the context
ConstructEvaluated ==
    /\ computation = [NewComputation("a") EXCEPT !.variables = <<"v1">>]
    /\ \E o \in ObjIds :
          cvars = [u \in VarIds |-> IF u = "v1" THEN ObjectVariable("a", o)
                                    ELSE BareVariable("a")]
    /\ objs = [o \in ObjIds |-> [value |-> 1, exists |-> TRUE]]
    /\ op = Op("init", "")
    /\ ret = None
    /\ binding = "never"

(***************************************************************************)
(* Operation.py: set_property called from two threads on an item with an   *)
(* OperationPropertyBinding                                                *)
(***************************************************************************)

\* the threads that call set_property
Writers == {1, 2}

IdleWriter == [pc |-> "idle", new_value |-> None, old_value |-> None]

NoWriters == [t \in Writers |-> IdleWriter]

\* set_property on thread t: self.values[property_id] = value and the setattr on
\* the operation; notify_set_property follows
WriterStore(t) ==
    \E value \in KeyValues(property_binding.property_name) :
        /\ writer[t].pc = "idle"
        /\ Len(property_binding.tasks) < MaxTasks
        /\ operation_item' = StoreValue(CalledItem, property_binding.property_name, value)
        /\ writer' = [writer EXCEPT ![t].pc = "notified"]
        /\ UNCHANGED <<property_binding, target_value>>

\* property_changed on thread t: property_value is the item's own values, and
\* new_value and old_value are read from it and from the binding's copy
WriterRead(t) ==
    /\ writer[t].pc = "notified"
    /\ writer' = [writer EXCEPT
                     ![t] = [pc |-> "read",
                             new_value |-> values_get(operation_item.values,
                                                      property_binding.property_name),
                             old_value |-> values_get(property_binding.values,
                                                      property_binding.property_name)]]
    /\ UNCHANGED <<operation_item, property_binding, target_value>>

\* if new_value != old_value: self.add_task("update_target", ...)
WriterAddTask(t) ==
    /\ writer[t].pc = "read"
    /\ IF writer[t].new_value # writer[t].old_value
       THEN /\ property_binding' = [property_binding EXCEPT
                                       !.tasks = Append(@, writer[t].new_value)]
            /\ writer' = [writer EXCEPT ![t].pc = "queued"]
       ELSE /\ writer' = [writer EXCEPT ![t] = IdleWriter]
            /\ UNCHANGED property_binding
    /\ UNCHANGED <<operation_item, target_value>>

\* self.__values = copy.copy(self.source.values)
WriterCopy(t) ==
    /\ writer[t].pc = "queued"
    /\ property_binding' = [property_binding EXCEPT !.values = operation_item.values]
    /\ writer' = [writer EXCEPT ![t] = IdleWriter]
    /\ UNCHANGED <<operation_item, target_value>>

\* the UI thread runs the tasks that wait, in the order they were added; the
\* target shows the value of the last update_target
RunUpdateTasks ==
    /\ property_binding.tasks # << >>
    /\ target_value' = Some(property_binding.tasks[Len(property_binding.tasks)])
    /\ property_binding' = [property_binding EXCEPT !.tasks = << >>]
    /\ UNCHANGED <<operation_item, writer>>

(***************************************************************************)
(* Symbolic.py: the BoundVariable handles the Computation obtains          *)
(***************************************************************************)

NoHandles == [u \in VarIds |-> 0]

\* bound of the model: the listeners that are counted on one variable
MaxHandles == 3

\* the BoundVariable the Computation keeps in __bound_items for the variable:
\* obtained by __bind_variable, closed by __unbind_variable
HeldHandles(c, u) ==
    IF u \in DOMAIN c.bound_items /\ c.bound_items[u] = [kind |-> "bound_variable", id |-> u]
    THEN 1 ELSE 0

\* the BoundVariable objects one parse obtains for the variable: one for each
\* entry of computation_variable_map that resolves to it
ParseHandles(c, vs, os, u) ==
    Cardinality({name \in VarNames :
                    /\ MapIndexes(c, vs, name) # {}
                    /\ resolve_object_specifier(c, vs, os, MapSpecifier(c, vs, name))
                           = [kind |-> "bound_variable", id |-> u]})

\* the parses that ran during the call
Parses(log) == Cardinality({i \in 1..Len(log) : log[i] = "parse"})

\* the listeners open after the call: a BoundVariable listens from its
\* construction until its close(), and the parse closes none
CountHandles ==
    handles' = [u \in VarIds |->
                   handles[u] + HeldHandles(computation', u) - HeldHandles(computation, u)
                   + Parses(computation'.log) * ParseHandles(computation', cvars', objs', u)]

WithinHandles == \A u \in VarIds : handles[u] < MaxHandles

(***************************************************************************)
(* Symbolic.py: the specifier of a bound reference variable is changed     *)
(***************************************************************************)

\* the objects of the host context when a variable is pointed at another one
OtherObjIds == ObjIds \cup {"o2"}

\* variable.specifier_uuid_str = value: the specifier is assigned with the new
\* uuid, and __property_changed notifies "specifier" and "specifier_uuid_str"
\* and fires changed_event
SetSpecifierUuid ==
    \E u \in Range(computation.variables), value \in DOMAIN objs :
        /\ cvars[u].specifier # NoSpecifier
        /\ cvars[u].specifier.uuid # value
        /\ objs[value].exists
        /\ cvars' = [cvars EXCEPT ![u].specifier.uuid = value]
        /\ computation' = VariablePropertyChanged(Called, cvars', objs, u,
                                                  <<"specifier", "specifier_uuid_str">>)
        /\ op' = Op("set_specifier_uuid_str", u)
        /\ ret' = None
        /\ UNCHANGED <<objs, binding>>

\* the data of one of the objects changes and its changed_event fires
AnyObjectChanged ==
    \E o \in DOMAIN objs, value \in Values :
        /\ objs[o].exists
        /\ objs' = [objs EXCEPT ![o].value = value]
        /\ computation' = ObjectChangedEvent(Called, o, VarIds)
        /\ op' = Op("object_changed", o)
        /\ ret' = None
        /\ UNCHANGED <<cvars, binding>>

\* the host deletes one of the objects, whose deleted_event fires
AnyObjectDeleted ==
    \E o \in DOMAIN objs :
        /\ objs[o].exists
        /\ objs' = [objs EXCEPT ![o].exists = FALSE]
        /\ computation' = ObjectDeletedEvent(Called, cvars, o, VarIds)
        /\ op' = Op("object_deleted", o)
        /\ ret' = None
        /\ UNCHANGED <<cvars, binding>>

\* a Computation read back from storage with one reference variable, in a
\* context that holds the object it names and another one
ConstructReferring ==
    /\ \E e \in {NoExpression, "a"} :
          computation = [NewComputation(e) EXCEPT !.variables = <<"v1">>]
    /\ \E o \in OtherObjIds, flag \in BOOLEAN :
          cvars = [u \in VarIds |->
                      IF u = "v1" THEN [ObjectVariable("a", o) EXCEPT !.cascade_delete = flag]
                      ELSE BareVariable("a")]
    /\ objs = [o \in OtherObjIds |-> [value |-> 1, exists |-> TRUE]]
    /\ op = Op("init", "")
    /\ ret = None
    /\ binding = "never"

(***************************************************************************)
(* Graphics.py and Operation.py: a line that an OperationItem observes is  *)
(* dragged.  adjust_part assigns start and end one after the other, and    *)
(* each setter notifies the observers before the next statement runs.      *)
(***************************************************************************)

\* the graphic after each assignment adjust_part makes, in order
line_adjust_part_assignments(g, original, current, part, modifiers) ==
    LET line == line_adjust_part(g, original, current, part, modifiers) IN
    IF part.part = "all" THEN <<[g EXCEPT !.start = line.start], line>>
    ELSE IF part.part \in {"start", "end"} THEN <<line>>
    ELSE << >>

\* the notifications of those assignments, seen from the item: the item after
\* them, and values["vector"] as it is when each operation_changed is sent
RECURSIVE NotifyAssignments(_, _)
NotifyAssignments(told, assignments) ==
    IF assignments = << >> THEN told
    ELSE LET it == graphic_notify_set_property(told.item, Head(assignments)) IN
         NotifyAssignments(
            [item |-> it,
             observed |-> IF it.observing /\ it.graphic
                          THEN Append(told.observed, it.values["vector"])
                          ELSE told.observed],
            Tail(assignments))

\* LineGraphic.adjust_part on a line the item may observe
ObservedLineAdjustPart ==
    \E original \in Pressed, current \in Pointers, modifiers \in Modifiers :
        LET assignments ==
                line_adjust_part_assignments(graphic, original, current, drag, modifiers)
            told == NotifyAssignments([item |-> CalledItem, observed |-> << >>], assignments)
        IN /\ drag # NoDrag
           /\ assignments # << >>
           /\ OnImage(assignments[Len(assignments)].start)
           /\ OnImage(assignments[Len(assignments)].end)
           /\ graphic' = assignments[Len(assignments)]
           /\ operation_item' = told.item
           /\ observed' = told.observed
           /\ called' = "adjust_part"
           /\ UNCHANGED <<registry, returned, constructed, latest_factory, drag, adjusted>>

\* a line-profile item and the line it will be given
ConstructLineProfile ==
    /\ registry = BuiltinRegistrations
    /\ operation_item = NewOperationItem(registry, "line-profile-operation")
    /\ graphic = NewGraphic("line")
    /\ called = "init"
    /\ returned = NoReturn
    /\ constructed = 0
    /\ latest_factory = BuiltinRegistrations

(***************************************************************************)
(* Operation.py: Crop2dOperation and LineProfileOperation.  Data is        *)
(* modelled by its shape; a normalized coordinate is a number of quarters, *)
(* so int(shape * coordinate) is the product over One, truncated.          *)
(***************************************************************************)

\* int(x) of the quotient numerator / One: Python truncates toward zero
int_of_quarters(numerator) ==
    IF numerator >= 0 THEN numerator \div One ELSE -((-numerator) \div One)

\* int(math.sqrt(n))
RECURSIVE int_sqrt_from(_, _)
int_sqrt_from(n, r) == IF (r + 1) * (r + 1) > n THEN r ELSE int_sqrt_from(n, r + 1)

int_sqrt(n) == int_sqrt_from(n, 0)

\* the index a slice bound stands for on an axis of n elements
slice_index(n, i) ==
    IF i < 0 THEN (IF i + n < 0 THEN 0 ELSE i + n) ELSE (IF i > n THEN n ELSE i)

\* len(range(n)[start:stop])
slice_length(n, start, stop) ==
    IF slice_index(n, stop) > slice_index(n, start)
    THEN slice_index(n, stop) - slice_index(n, start)
    ELSE 0

\* bounds_int of Crop2dOperation
crop_bounds_int(attributes, shape) ==
    LET bounds == get_property(attributes, "bounds", DefaultBounds) IN
    <<<<int_of_quarters(shape[1] * bounds[1][1]), int_of_quarters(shape[2] * bounds[1][2])>>,
      <<int_of_quarters(shape[1] * bounds[2][1]), int_of_quarters(shape[2] * bounds[2][2])>>>>

\* Crop2dOperation.get_processed_data_shape_and_dtype, for data that is not RGB
crop_get_processed_data_shape_and_dtype(attributes, data_shape) ==
    [data |-> "none", shape |-> crop_bounds_int(attributes, data_shape)[2]]

\* Crop2dOperation.process_data_in_place: a slice is clipped to the array
crop_process_data_in_place(attributes, data_shape) ==
    LET bounds_int == crop_bounds_int(attributes, data_shape) IN
    [data |-> "cropped",
     shape |-> <<slice_length(data_shape[1], bounds_int[1][1],
                              bounds_int[1][1] + bounds_int[2][1]),
                 slice_length(data_shape[2], bounds_int[1][2],
                              bounds_int[1][2] + bounds_int[2][2])>>]

\* start_data and end_data of LineProfileOperation
line_profile_data(attributes, shape) ==
    LET vector == get_property(attributes, "vector", DefaultVector) IN
    <<<<int_of_quarters(shape[1] * vector[1][1]), int_of_quarters(shape[2] * vector[1][2])>>,
      <<int_of_quarters(shape[1] * vector[2][1]), int_of_quarters(shape[2] * vector[2][2])>>>>

\* length of LineProfileOperation
line_profile_length(attributes, shape) ==
    LET d == line_profile_data(attributes, shape) IN
    int_sqrt((d[2][2] - d[1][2]) * (d[2][2] - d[1][2])
             + (d[2][1] - d[1][1]) * (d[2][1] - d[1][1]))

\* LineProfileOperation.get_processed_data_shape_and_dtype, for data that is not RGB
line_profile_get_processed_data_shape_and_dtype(attributes, data_shape) ==
    [data |-> "none", shape |-> <<line_profile_length(attributes, data_shape)>>]

\* an index array from first to last is within an axis of n elements: its
\* values lie between its ends, and one sample is the first end alone
Indexable(n, first, last, length) ==
    /\ -n <= first /\ first < n
    /\ length > 1 => -n <= last /\ last < n

\* LineProfileOperation.process_data_in_place
line_profile_process_data_in_place(attributes, data_shape) ==
    LET d == line_profile_data(attributes, data_shape)
        length == line_profile_length(attributes, data_shape)
    IN IF length > 0
       THEN IF /\ Indexable(data_shape[1], d[1][1], d[2][1] - 1, length)
               /\ Indexable(data_shape[2], d[1][2], d[2][2] - 1, length)
            THEN [data |-> "sampled", shape |-> <<length>>]
            ELSE [data |-> "IndexError", shape |-> << >>]
       ELSE [data |-> "zeros", shape |-> <<1>>]

\* the Operation's process_data_in_place on data of that shape
shaped_process_data(it, data_shape) ==
    IF it.operation = "Crop2dOperation"
    THEN crop_process_data_in_place(it.attributes, data_shape)
    ELSE line_profile_process_data_in_place(it.attributes, data_shape)

\* the Operation's get_processed_data_shape_and_dtype for data of that shape
shaped_get_processed_data_shape_and_dtype(it, data_shape) ==
    IF it.operation = "Crop2dOperation"
    THEN crop_get_processed_data_shape_and_dtype(it.attributes, data_shape)
    ELSE line_profile_get_processed_data_shape_and_dtype(it.attributes, data_shape)

\* the coordinates a graphic is moved to, in quarters: inside, on the edge of
\* and outside the image
ShapeCoordinates == {-2, 0, 2, One}
ShapePoints == ShapeCoordinates \X ShapeCoordinates
ShapeSizes == {0, 2, One} \X {0, 2, One}

\* what a call on the item returned for an input of that shape
Shaped(data_shape, value) ==
    [raised |-> IF value.data = "IndexError" THEN "IndexError" ELSE "none",
     input |-> data_shape, value |-> value]

\* a crop item with a rectangle, or a line-profile item with a line
ConstructShaped ==
    /\ registry = BuiltinRegistrations
    /\ \E id \in {"crop-operation", "line-profile-operation"} :
          /\ operation_item = NewOperationItem(registry, id)
          /\ graphic = NewGraphic(IF id = "crop-operation" THEN "rectangle" ELSE "line")
    /\ called = "init"
    /\ returned = Shaped(<<1, 1>>, [data |-> "none", shape |-> << >>])
    /\ constructed = 0
    /\ latest_factory = BuiltinRegistrations

\* the user drags the graphic somewhere: the setters store and notify
GraphicMovedTo ==
    /\ \/ /\ graphic.kind = "line"
          /\ \E start \in ShapePoints, end \in ShapePoints :
                graphic' = [graphic EXCEPT !.start = start, !.end = end]
       \/ /\ graphic.kind = "rectangle"
          /\ \E origin \in ShapePoints, size \in ShapeSizes :
                graphic' = [graphic EXCEPT !.bounds = RectangleSetBounds(<<origin, size>>)]
    /\ operation_item' = graphic_notify_set_property(CalledItem, graphic')
    /\ called' = "graphic moved"
    /\ UNCHANGED <<registry, returned, constructed, latest_factory>>

\* item.process_data(data)
ShapedProcessData ==
    /\ \E data_shape \in Dimensions \X Dimensions :
          returned' = Shaped(data_shape, shaped_process_data(operation_item, data_shape))
    /\ operation_item' = [CalledItem EXCEPT !.raised = returned'.raised]
    /\ called' = "process_data"
    /\ UNCHANGED <<registry, graphic, constructed, latest_factory>>

\* item.get_processed_data_shape_and_dtype(data_shape, data_dtype)
ShapedGetProcessedDataShapeAndDtype ==
    /\ \E data_shape \in Dimensions \X Dimensions :
          returned' = Shaped(data_shape,
                          shaped_get_processed_data_shape_and_dtype(operation_item, data_shape))
    /\ operation_item' = CalledItem
    /\ called' = "get_processed_data_shape_and_dtype"
    /\ UNCHANGED <<registry, graphic, constructed, latest_factory>>

\* the initial state of the parts specified last in the specifications of the others
LastUnused ==
    /\ parse = NoParse
    /\ writer = NoWriters
    /\ target_value = None
    /\ handles = NoHandles
    /\ observed = << >>

\* the initial state of the geometry functions in the specifications of the other parts
LaterUnused ==
    /\ fit = NoFit
    /\ mirror = << >>
    /\ adjusted = NoAdjust
    /\ LastUnused

\* the initial state of the parts above in the specifications of the other parts
RestUnused ==
    /\ hit = NoHit
    /\ VariableUnused
    /\ StoredUnused
    /\ PropertyBindingUnused
    /\ LaterUnused

(***************************************************************************)
(* The specifications                                                      *)
(***************************************************************************)

\* the initial state of the Computation in the specifications of the other parts
ComputationUnused ==
    /\ computation = NewComputation(NoExpression)
    /\ cvars = [u \in VarIds |-> BareVariable("a")]
    /\ objs = [o \in ObjIds |-> [value |-> 1, exists |-> TRUE]]
    /\ op = Op("init", "")
    /\ ret = None
    /\ binding = "never"

InitComputation ==
    ConstructComputation /\ ConstructEvaluate /\ OperationItemUnused /\ GraphicUnused /\ RestUnused

notComputationVars == <<evaluateVars, operationVars, graphicsVars, restVars, laterVars>>

\* the host binds the Computation before it uses it, and keeps it bound
NextComputation ==
    \/ binding = "never" /\ Bind /\ UNCHANGED notComputationVars
    \/ binding = "bound" /\ AddVariable /\ UNCHANGED notComputationVars
    \/ binding = "bound" /\ RemoveVariable /\ UNCHANGED notComputationVars
    \/ binding = "bound" /\ SetExpression /\ UNCHANGED notComputationVars
    \/ binding = "bound" /\ SetValue /\ UNCHANGED notComputationVars
    \/ binding = "bound" /\ SetLabel /\ UNCHANGED notComputationVars
    \/ binding = "bound" /\ ObjectChanged /\ UNCHANGED notComputationVars
    \/ binding = "bound" /\ HostEvaluate /\ UNCHANGED notComputationVars

SpecComputation == InitComputation /\ [][NextComputation]_vars

InitEvaluate ==
    ComputationUnused /\ ConstructEvaluate /\ OperationItemUnused /\ GraphicUnused /\ RestUnused

notEvaluateVars == <<computationVars, operationVars, graphicsVars, restVars, laterVars>>

NextEvaluate ==
    \/ \E t \in Threads : BeginAcquire(t) /\ UNCHANGED notEvaluateVars
    \/ \E t \in Threads : BeginRead(t) /\ UNCHANGED notEvaluateVars
    \/ \E t \in Threads : BeginWrite(t) /\ UNCHANGED notEvaluateVars
    \/ \E t \in Threads : BeginReturn(t) /\ UNCHANGED notEvaluateVars
    \/ \E t \in Threads : EndEvaluate(t) /\ UNCHANGED notEvaluateVars

SpecEvaluate == InitEvaluate /\ [][NextEvaluate]_vars

InitOperation ==
    ComputationUnused /\ ConstructEvaluate /\ ConstructOperationItem /\ GraphicUnused /\ RestUnused

notOperationVars == <<computationVars, evaluateVars, graphicsVars, restVars, laterVars>>

NextOperation ==
    \/ SetProperty /\ UNCHANGED notOperationVars
    \/ UpdateDataShapeAndDtype /\ UNCHANGED notOperationVars
    \/ AttachGraphic /\ UNCHANGED notOperationVars
    \/ DetachGraphic /\ UNCHANGED notOperationVars
    \/ GraphicSetStart /\ UNCHANGED notOperationVars
    \/ GraphicSetEnd /\ UNCHANGED notOperationVars
    \/ GraphicSetBounds /\ UNCHANGED notOperationVars
    \/ BuildItem /\ UNCHANGED notOperationVars
    \/ DeepCopyItem /\ UNCHANGED notOperationVars
    \/ ProcessData /\ UNCHANGED notOperationVars
    \/ GetProcessedCalibrations /\ UNCHANGED notOperationVars
    \/ GetProcessedIntensityCalibration /\ UNCHANGED notOperationVars
    \/ GetProcessedDataShapeAndDtype /\ UNCHANGED notOperationVars

SpecOperation == InitOperation /\ [][NextOperation]_vars

InitRegistry ==
    ComputationUnused /\ ConstructEvaluate /\ ConstructRegistry /\ GraphicUnused /\ RestUnused

NextRegistry ==
    \/ RegisterOperation /\ UNCHANGED notOperationVars
    \/ UnregisterOperation /\ UNCHANGED notOperationVars
    \/ BuildOperation /\ UNCHANGED notOperationVars
    \/ NewItem /\ UNCHANGED notOperationVars

SpecRegistry == InitRegistry /\ [][NextRegistry]_vars

InitGraphics ==
    /\ ComputationUnused
    /\ ConstructEvaluate
    /\ registry = BuiltinRegistrations
    /\ operation_item = NewOperationItem(registry, PluginId)
    /\ called = "init"
    /\ returned = NoReturn
    /\ constructed = 0
    /\ latest_factory = BuiltinRegistrations
    /\ ConstructGraphic
    /\ RestUnused

notGraphicsVars ==
    <<computationVars, evaluateVars, registry, operation_item, returned, constructed,
      latest_factory, restVars, laterVars>>

NextGraphics ==
    \/ AssignBounds /\ UNCHANGED notGraphicsVars
    \/ BuildGraphic /\ UNCHANGED notGraphicsVars
    \/ DeepcopyGraphic /\ UNCHANGED notGraphicsVars
    \/ BeginDrag /\ UNCHANGED notGraphicsVars
    \/ AdjustPart /\ UNCHANGED notGraphicsVars
    \/ EndDrag /\ UNCHANGED notGraphicsVars

SpecGraphics == InitGraphics /\ [][NextGraphics]_vars

\* hit tests of one shape
InitHitTest ==
    /\ ComputationUnused
    /\ ConstructEvaluate
    /\ registry = BuiltinRegistrations
    /\ operation_item = NewOperationItem(registry, PluginId)
    /\ called = "init"
    /\ returned = NoReturn
    /\ constructed = 0
    /\ latest_factory = BuiltinRegistrations
    /\ GraphicUnused
    /\ ConstructHitGraphic
    /\ VariableUnused
    /\ StoredUnused
    /\ PropertyBindingUnused
    /\ LaterUnused

notHitVars ==
    <<computationVars, evaluateVars, registry, operation_item, called, returned, constructed,
      latest_factory, graphicsVars, computation_variable, type_call, written, read_back,
      property_binding, watched, laterVars>>

NextHitTest ==
    \/ TestRectangle /\ UNCHANGED notHitVars
    \/ TestEllipse /\ UNCHANGED notHitVars
    \/ TestLine /\ UNCHANGED notHitVars

SpecHitTest == InitHitTest /\ [][NextHitTest]_vars

\* assignments of variable_type to one ComputationVariable
InitVariableType ==
    /\ ComputationUnused
    /\ ConstructEvaluate
    /\ OperationItemUnused
    /\ GraphicUnused
    /\ hit = NoHit
    /\ ConstructVariable
    /\ StoredUnused
    /\ PropertyBindingUnused
    /\ LaterUnused

notVariableTypeVars ==
    <<computationVars, evaluateVars, operationVars, graphicsVars, hit, written, read_back,
      property_binding, watched, laterVars>>

NextVariableType ==
    \/ SetVariableType /\ UNCHANGED notVariableTypeVars

SpecVariableType == InitVariableType /\ [][NextVariableType]_vars

\* a scalar ComputationVariable is written and read back
InitStoredVariable ==
    /\ ComputationUnused
    /\ ConstructEvaluate
    /\ OperationItemUnused
    /\ GraphicUnused
    /\ hit = NoHit
    /\ ConstructStoredVariable
    /\ PropertyBindingUnused
    /\ LaterUnused

notStoredVariableVars ==
    <<computationVars, evaluateVars, operationVars, graphicsVars, hit, property_binding, watched,
      laterVars>>

NextStoredVariable ==
    \/ WriteToDict /\ UNCHANGED notStoredVariableVars
    \/ ReadFromDict /\ UNCHANGED notStoredVariableVars

SpecStoredVariable == InitStoredVariable /\ [][NextStoredVariable]_vars

\* a Computation is bound, given variables, unbound and bound again; an object
\* a reference variable names may be missing from the context
InitBinding ==
    /\ \E e \in {NoExpression, "a + b"} :
          \/ /\ computation = NewComputation(e)
             /\ cvars = [u \in VarIds |-> BareVariable("a")]
          \/ \E v \in VariableTemplates :
                /\ computation = [NewComputation(e) EXCEPT !.variables = <<"v1">>]
                /\ cvars = [u \in VarIds |-> IF u = "v1" THEN v ELSE BareVariable("a")]
    /\ objs \in [ObjIds -> [value : {1}, exists : BOOLEAN]]
    /\ op = Op("init", "")
    /\ ret = None
    /\ binding = "never"
    /\ ConstructEvaluate
    /\ OperationItemUnused
    /\ GraphicUnused
    /\ RestUnused

NextBinding ==
    \/ WithinListeners /\ Bind /\ UNCHANGED notComputationVars
    \/ binding = "bound" /\ AddVariable /\ UNCHANGED notComputationVars
    \/ binding = "bound" /\ Unbind /\ UNCHANGED notComputationVars

SpecBinding == InitBinding /\ [][NextBinding]_vars

\* an OperationItem with an OperationPropertyBinding on one parameter
InitPropertyBinding ==
    /\ ComputationUnused
    /\ ConstructEvaluate
    /\ GraphicUnused
    /\ hit = NoHit
    /\ VariableUnused
    /\ StoredUnused
    /\ ConstructPropertyBinding
    /\ LaterUnused

notPropertyBindingVars ==
    <<computationVars, evaluateVars, graphicsVars, hit, computation_variable, type_call,
      written, read_back, laterVars>>

NextPropertyBinding ==
    \/ BoundSetProperty /\ UNCHANGED notPropertyBindingVars
    \/ BoundUpdateDataShapeAndDtype /\ UNCHANGED notPropertyBindingVars
    \/ BoundSetEnabled /\ UNCHANGED notPropertyBindingVars
    \/ RunTasks /\ UNCHANGED notPropertyBindingVars

SpecPropertyBinding == InitPropertyBinding /\ [][NextPropertyBinding]_vars

\* a Resample OperationItem whose parameters are set and which processes data
InitResample ==
    ComputationUnused /\ ConstructEvaluate /\ ConstructResample /\ GraphicUnused /\ RestUnused

NextResample ==
    \/ ResampleSetProperty /\ UNCHANGED notOperationVars
    \/ ResampleUpdateDataShapeAndDtype /\ UNCHANGED notOperationVars
    \/ ResampleProcessData /\ UNCHANGED notOperationVars
    \/ ResampleGetProcessedDataShapeAndDtype /\ UNCHANGED notOperationVars

SpecResample == InitResample /\ [][NextResample]_vars

\* calls of fit_to_aspect_ratio
InitFit ==
    /\ ComputationUnused
    /\ ConstructEvaluate
    /\ OperationItemUnused
    /\ GraphicUnused
    /\ hit = NoHit
    /\ VariableUnused
    /\ StoredUnused
    /\ PropertyBindingUnused
    /\ ConstructFit
    /\ mirror = << >>
    /\ adjusted = NoAdjust
    /\ LastUnused

notFitVars ==
    <<computationVars, evaluateVars, operationVars, graphicsVars, restVars, mirror, adjusted,
      lastVars>>

NextFit ==
    \/ FitToAspectRatio /\ UNCHANGED notFitVars

SpecFit == InitFit /\ [][NextFit]_vars

\* a bound Computation whose expression and variables change between the
\* host's calls of evaluate_data()
NextEvaluateData ==
    \/ binding = "never" /\ Bind /\ UNCHANGED notComputationVars
    \/ binding = "bound" /\ AddVariable /\ UNCHANGED notComputationVars
    \/ binding = "bound" /\ SetExpression /\ UNCHANGED notComputationVars
    \/ binding = "bound" /\ HostEvaluateData /\ UNCHANGED notComputationVars

SpecEvaluateData == InitComputation /\ [][NextEvaluateData]_vars

\* variables are added to and removed from a bound Computation while a listener
\* mirrors them; an object a reference variable names may be missing from the
\* context
notVariablesVars ==
    <<evaluateVars, operationVars, graphicsVars, restVars, fit, adjusted, lastVars>>

NextVariables ==
    \/ binding = "never" /\ MirroredBind /\ UNCHANGED notVariablesVars
    \/ binding = "bound" /\ MirroredAddVariable /\ UNCHANGED notVariablesVars
    \/ binding = "bound" /\ MirroredRemoveVariable /\ UNCHANGED notVariablesVars

SpecVariables == InitBinding /\ [][NextVariables]_vars

\* the objects of the host come and go while the Computation is bound, given
\* and relieved of variables, and unbound
NextCascade ==
    \/ binding = "never" /\ Bind /\ UNCHANGED notComputationVars
    \/ binding = "bound" /\ AddVariable /\ UNCHANGED notComputationVars
    \/ binding = "bound" /\ RemoveVariable /\ UNCHANGED notComputationVars
    \/ binding = "bound" /\ SetCascadeDelete /\ UNCHANGED notComputationVars
    \/ binding = "bound" /\ Unbind /\ UNCHANGED notComputationVars
    \/ ObjectCreated /\ UNCHANGED notComputationVars
    \/ ObjectDeleted /\ UNCHANGED notComputationVars

SpecCascade == InitBinding /\ [][NextCascade]_vars

\* calls of adjust_rectangle_like with the bounds of one drag
InitAdjust ==
    /\ ComputationUnused
    /\ ConstructEvaluate
    /\ OperationItemUnused
    /\ GraphicUnused
    /\ hit = NoHit
    /\ VariableUnused
    /\ StoredUnused
    /\ PropertyBindingUnused
    /\ fit = NoFit
    /\ mirror = << >>
    /\ ConstructAdjust
    /\ LastUnused

notAdjustVars ==
    <<computationVars, evaluateVars, operationVars, graphicsVars, restVars, fit, mirror, lastVars>>

NextAdjust ==
    \/ AdjustRectangleLike /\ UNCHANGED notAdjustVars

SpecAdjust == InitAdjust /\ [][NextAdjust]_vars

\* the drags of one line
InitLine ==
    /\ ComputationUnused
    /\ ConstructEvaluate
    /\ registry = BuiltinRegistrations
    /\ operation_item = NewOperationItem(registry, PluginId)
    /\ called = "init"
    /\ returned = NoReturn
    /\ constructed = 0
    /\ latest_factory = BuiltinRegistrations
    /\ ConstructLine
    /\ RestUnused

notLineVars ==
    <<computationVars, evaluateVars, registry, operation_item, called, returned, constructed,
      latest_factory, assigned, restVars, fit, mirror, lastVars>>

NextLine ==
    \/ LineBeginDrag /\ UNCHANGED notLineVars
    \/ LineAdjustPart /\ UNCHANGED notLineVars
    \/ LineEndDrag /\ UNCHANGED notLineVars

SpecLine == InitLine /\ [][NextLine]_vars

\* the drags of a rectangle or an ellipse, with calls that name an unknown part
NextDrag ==
    \/ BeginDrag /\ UNCHANGED notGraphicsVars
    \/ AdjustPart /\ UNCHANGED notGraphicsVars
    \/ AdjustUnrecognizedPart /\ UNCHANGED notGraphicsVars
    \/ EndDrag /\ UNCHANGED notGraphicsVars

SpecDrag == InitGraphics /\ [][NextDrag]_vars

\* evaluate() on one thread, changes of the bound objects on another
InitRace ==
    /\ ConstructEvaluated
    /\ ConstructEvaluate
    /\ OperationItemUnused
    /\ GraphicUnused
    /\ RestUnused

notRaceVars ==
    <<evaluateVars, operationVars, graphicsVars, restVars, fit, mirror, adjusted,
      writer, target_value, handles, observed>>

NextRace ==
    \/ binding = "never" /\ parse.pc = "idle" /\ Bind /\ UNCHANGED <<notRaceVars, parse>>
    \/ binding = "bound" /\ EvaluateEnter /\ UNCHANGED notRaceVars
    \/ ParseRead /\ UNCHANGED notRaceVars
    \/ ParseStore /\ UNCHANGED notRaceVars
    \/ ParseClear /\ UNCHANGED notRaceVars
    \/ EvaluateReturn /\ UNCHANGED notRaceVars
    \/ binding = "bound" /\ ChangedOnOtherThread /\ UNCHANGED notRaceVars

SpecRace == InitRace /\ [][NextRace]_vars

\* two threads set the parameter an OperationPropertyBinding watches
notWriterVars ==
    <<computationVars, evaluateVars, registry, graphic, called, returned, constructed,
      latest_factory, graphicsVars, restVarsButBinding, fit, mirror, adjusted, parse, handles,
      observed>>

NextWriters ==
    \/ \E t \in Writers : WriterStore(t) /\ UNCHANGED notWriterVars
    \/ \E t \in Writers : WriterRead(t) /\ UNCHANGED notWriterVars
    \/ \E t \in Writers : WriterAddTask(t) /\ UNCHANGED notWriterVars
    \/ \E t \in Writers : WriterCopy(t) /\ UNCHANGED notWriterVars
    \/ RunUpdateTasks /\ UNCHANGED notWriterVars

SpecWriters == InitPropertyBinding /\ [][NextWriters]_vars

\* the bound Computation, with the BoundVariable listeners counted
notHandlesVars ==
    <<evaluateVars, operationVars, graphicsVars, restVars, fit, mirror, adjusted, parse,
      writer, target_value, observed>>

NextHandles ==
    \/ binding = "never" /\ Bind /\ CountHandles /\ UNCHANGED notHandlesVars
    \/ binding = "bound" /\ WithinHandles /\ AddVariable /\ CountHandles
          /\ UNCHANGED notHandlesVars
    \/ binding = "bound" /\ WithinHandles /\ RemoveVariable /\ CountHandles
          /\ UNCHANGED notHandlesVars
    \/ binding = "bound" /\ WithinHandles /\ SetExpression /\ CountHandles
          /\ UNCHANGED notHandlesVars
    \/ binding = "bound" /\ WithinHandles /\ ObjectChanged /\ CountHandles
          /\ UNCHANGED notHandlesVars
    \/ binding = "bound" /\ WithinHandles /\ HostEvaluate /\ CountHandles
          /\ UNCHANGED notHandlesVars

SpecHandles == InitComputation /\ [][NextHandles]_vars

\* a bound reference variable is pointed at another object
InitRebind ==
    /\ ConstructReferring
    /\ ConstructEvaluate
    /\ OperationItemUnused
    /\ GraphicUnused
    /\ RestUnused

NextRebind ==
    \/ binding = "never" /\ Bind /\ UNCHANGED notComputationVars
    \/ binding = "bound" /\ SetSpecifierUuid /\ UNCHANGED notComputationVars
    \/ binding = "bound" /\ SetCascadeDelete /\ UNCHANGED notComputationVars
    \/ binding = "bound" /\ HostEvaluate /\ UNCHANGED notComputationVars
    \/ binding = "bound" /\ AnyObjectChanged /\ UNCHANGED notComputationVars
    \/ binding = "bound" /\ AnyObjectDeleted /\ UNCHANGED notComputationVars

SpecRebind == InitRebind /\ [][NextRebind]_vars

\* a line bound to a line-profile item is dragged
InitMove ==
    ComputationUnused /\ ConstructEvaluate /\ ConstructLineProfile /\ GraphicUnused /\ RestUnused

notMoveVars ==
    <<computationVars, evaluateVars, assigned, restVars, fit, mirror, parse, writer,
      target_value, handles>>

NextMove ==
    \/ AttachGraphic /\ UNCHANGED <<notMoveVars, drag, adjusted, observed>>
    \/ LineBeginDrag
          /\ UNCHANGED <<notMoveVars, registry, operation_item, called, returned, constructed,
                         latest_factory, observed>>
    \/ ObservedLineAdjustPart /\ UNCHANGED notMoveVars
    \/ LineEndDrag
          /\ UNCHANGED <<notMoveVars, registry, operation_item, called, returned, constructed,
                         latest_factory, observed>>

SpecMove == InitMove /\ [][NextMove]_vars

\* a crop or a line-profile item follows its graphic and processes data
InitShaped ==
    ComputationUnused /\ ConstructEvaluate /\ ConstructShaped /\ GraphicUnused /\ RestUnused

NextShaped ==
    \/ AttachGraphic /\ UNCHANGED notOperationVars
    \/ GraphicMovedTo /\ UNCHANGED notOperationVars
    \/ ShapedProcessData /\ UNCHANGED notOperationVars
    \/ ShapedGetProcessedDataShapeAndDtype /\ UNCHANGED notOperationVars

SpecShaped == InitShaped /\ [][NextShaped]_vars

\* the host uses a Computation it never bound
NextUnbound ==
    \/ binding = "never" /\ AddVariable /\ UNCHANGED notComputationVars
    \/ binding = "never" /\ SetExpression /\ UNCHANGED notComputationVars
    \/ binding = "never" /\ HostEvaluate /\ UNCHANGED notComputationVars

SpecUnbound == InitComputation /\ [][NextUnbound]_vars

(***************************************************************************)
(* Claims about the bound Computation (checked under SpecComputation)      *)
(***************************************************************************)

\* the events and internal calls of the last operation
Logged(entry) == entry \in Range(computation.log)

\* the expression has been evaluated and nothing changed since
Evaluated(c) == ~c.needs_update /\ ~c.needs_parse /\ c.data_and_metadata # None

\* C1 (as claimed): changing the value of a scalar variable of a bound,
\* evaluated Computation runs no evaluation and leaves the cached result as it
\* was; only the host's next evaluate() brings the new value.
C1_CachedResultKeptUntilEvaluate ==
    [][(/\ op'.name = "set_value"
        /\ op'.target \in Range(computation.variables)
        /\ cvars'[op'.target].value # cvars[op'.target].value
        /\ Evaluated(computation))
       => /\ computation'.data_and_metadata = computation.data_and_metadata
          /\ "evaluate" \notin Range(computation'.log)]_vars

\* C2: every parse of a non-empty expression ends either with the computed
\* value cached and error_text cleared, or with the cached result cleared and
\* error_text = "Execution Error"; which one is decided by the execution alone,
\* so a parse that succeeds after a failed one clears error_text again.
C2_ParseEndsInResultOrError ==
    [][("parse" \in Range(computation'.log))
       => LET c == computation'
              value == ExecResult(c, cvars', objs', c.original_expression)
          IN IF value # None
             THEN c.data_and_metadata = value /\ c.error_text = NoText
             ELSE c.data_and_metadata = None /\ c.error_text = "Execution Error"]_vars

\* C2 witness: a parse has just failed.
C2_Witness ==
    /\ Logged("parse")
    /\ computation.error_text = "Execution Error"
    /\ computation.data_and_metadata = None

\* the step changes the expression or an input the Computation is bound to
ChangesInput ==
    \/ op'.name = "set_expression" /\ op'.target # computation.original_expression
    \/ op'.name \in {"set_value", "set_label"} /\ op'.target \in Range(computation.variables)
    \/ /\ op'.name = "object_changed"
       /\ \E u \in Range(computation.variables) :
             /\ u \in DOMAIN computation.bound_items
             /\ computation.bound_items[u] = [kind |-> "object", id |-> op'.target]

\* C3: on a bound Computation every change of the expression or of a bound
\* input leaves needs_update true, and only evaluate() called by the host
\* takes it from true to false; so needs_update is true in every state with a
\* change since the last evaluate().
C3_NeedsUpdateUntilEvaluate ==
    [][/\ (binding = "bound" /\ ChangesInput) => computation'.needs_update
       /\ (computation.needs_update /\ ~computation'.needs_update)
              => op'.name = "evaluate"]_vars

\* C3 witness: a variable changed, the change handler ran evaluate(), and
\* needs_update is true afterwards.
C3_Witness ==
    /\ op.name = "set_value"
    /\ Logged("evaluate")
    /\ computation.needs_update

(***************************************************************************)
(* Claims about begin_evaluate / end_evaluate (checked under SpecEvaluate) *)
(***************************************************************************)

Evaluators == {t \in Threads : thread[t].pc = "evaluating"}

\* C4: under every interleaving at most one caller of begin_evaluate() holds
\* a true answer at a time and at most one true is given between two
\* end_evaluate() calls; the flag is set while that caller evaluates; a call
\* answers true exactly when it read the flag as unset.
C4_OneEvaluationInFlight ==
    /\ Cardinality(Evaluators) <= 1
    /\ granted <= 1
    /\ Evaluators # {} => evaluating /\ granted = 1
    /\ \A t \in Threads :
          /\ thread[t].returned = "true" => ~thread[t].evaluating
          /\ thread[t].returned = "false" => thread[t].evaluating
          /\ thread[t].pc = "written" /\ Evaluators # {} => thread[t].evaluating

\* C4 witness: one caller evaluates and a second call has been answered false.
C4_Witness ==
    \E t1, t2 \in Threads :
        /\ t1 # t2
        /\ thread[t1].pc = "evaluating"
        /\ thread[t2].returned = "false"

(***************************************************************************)
(* Claims about the OperationItem (checked under SpecOperation)            *)
(***************************************************************************)

DeclaredKeys == Range(Properties(operation_item.operation))

\* the bound graphic is of the class __sync_graphic copies into this parameter
GraphicMatches(key) ==
    /\ operation_item.graphic
    /\ \/ PropertyType(key) = "line" /\ graphic.kind = "line"
       \/ PropertyType(key) = "rectangle" /\ graphic.kind = "rectangle"

Geometry == IF graphic.kind = "line" THEN <<graphic.start, graphic.end>> ELSE graphic.bounds

\* C5 (as claimed): whenever the item holds a graphic that matches one of its
\* parameters, values[parameter] is the graphic's current geometry, also
\* after set_property on that parameter.
C5_GraphicGeometryWins ==
    \A key \in DeclaredKeys :
        GraphicMatches(key) => operation_item.values[key] = Some(Geometry)

LineItem == "vector" \in DeclaredKeys /\ graphic.kind = "line"

\* C6: while a line graphic is held by an item with a line parameter, every
\* change of its start or end leaves values[parameter] = (start, end) and
\* notifies operation_changed; set_graphic("graphic", None) keeps the values,
\* and changes of the graphic made while the item does not hold it neither
\* change the values nor notify operation_changed.
C6_LineGraphicSyncsUntilDetached ==
    [][LineItem =>
        /\ (called' \in {"graphic.start", "graphic.end"} /\ operation_item.graphic)
            => /\ operation_item'.values["vector"] = Some(<<graphic'.start, graphic'.end>>)
               /\ "operation_changed" \in Range(operation_item'.log)
        /\ (called' = "set_graphic None")
            => /\ operation_item'.values = operation_item.values
               /\ ~operation_item'.graphic
        /\ (called' \in {"graphic.start", "graphic.end"} /\ ~operation_item.graphic)
            => /\ operation_item'.values = operation_item.values
               /\ "operation_changed" \notin Range(operation_item'.log)]_vars

\* C6 witness: the graphic was detached after a sync and has changed since;
\* the values still hold the pair synced last.
C6_Witness ==
    /\ LineItem
    /\ called = "graphic.end"
    /\ ~operation_item.graphic
    /\ operation_item.values["vector"] # None
    /\ operation_item.values["vector"] # Some(<<graphic.start, graphic.end>>)

\* C7 (as claimed): for an available operation every declared parameter that
\* is present in values has that value as the attribute of the live Operation.
C7_ValuesMirrorAttributes ==
    operation_item.operation # NoOperation =>
        \A key \in DeclaredKeys :
            operation_item.values[key] # None
                => operation_item.attributes[key] = operation_item.values[key]

\* C8 (as claimed): no operation of an item without operation fails; its name
\* is "Unavailable Operation", process_data returns a copy of the input and
\* the three get_processed_* calls return their input.
C8_UnavailableNeverFails ==
    operation_item.operation = NoOperation =>
        /\ operation_item.name = "Unavailable Operation"
        /\ operation_item.raised = "none"
        /\ returned.raised = "none"
        /\ called = "process_data" => returned.value.value = "copy of the input"
        /\ called \in {"get_processed_calibrations",
                       "get_processed_intensity_calibration",
                       "get_processed_data_shape_and_dtype"}
            => returned.value.value = "the input"

(***************************************************************************)
(* Claims about the OperationManager (checked under SpecRegistry)          *)
(***************************************************************************)

\* C9: build_operation(id) returns a new instance of the factory registered
\* last for id, or nothing when id is not registered; unregistering an id
\* that is not registered raises KeyError and changes nothing; registering
\* and unregistering leave the operation of an existing item alone.
C9_RegistryBuildsLatestFactory ==
    [][\A id \in RegisteredIds :
        /\ called' = "build_operation " \o id
            => returned'.value = IF latest_factory[id] # NoFactory
                                 THEN Instance(latest_factory[id], constructed + 1)
                                 ELSE NoInstance
        /\ (called' = "unregister_operation " \o id /\ latest_factory[id] = NoFactory)
            => returned'.raised = "KeyError" /\ registry' = registry
        /\ called' \in {"register_operation " \o id, "unregister_operation " \o id}
            => /\ operation_item'.operation = operation_item.operation
               /\ operation_item'.attributes = operation_item.attributes]_vars

\* C9 witness: the factory of a built-in id was replaced and build_operation
\* returned an instance of the new one, while an item holds the old operation.
C9_Witness ==
    /\ called = "build_operation gaussian-blur-operation"
    /\ registry["gaussian-blur-operation"] = "Crop2dOperation"
    /\ returned.value.class = "Crop2dOperation"
    /\ operation_item.operation = "GaussianBlurOperation"

(***************************************************************************)
(* Claims about the graphics (checked under SpecGraphics)                  *)
(***************************************************************************)

\* the points of an axis a rectangle covers, whatever the sign of its size
Low(bounds, axis) ==
    IF bounds[2][axis] < 0 THEN bounds[1][axis] + bounds[2][axis] ELSE bounds[1][axis]

High(bounds, axis) ==
    IF bounds[2][axis] < 0 THEN bounds[1][axis] ELSE bounds[1][axis] + bounds[2][axis]

SameRegion(b1, b2) ==
    \A axis \in {1, 2} : Low(b1, axis) = Low(b2, axis) /\ High(b1, axis) = High(b2, axis)

\* C10: the stored bounds of a rectangle or an ellipse never have a negative
\* size, and they cover the region of the bounds that were handed to the
\* setter last (by an assignment, build, deepcopy_from or adjust_part).
C10_StoredBoundsNormalized ==
    /\ graphic.bounds[2][1] >= 0
    /\ graphic.bounds[2][2] >= 0
    /\ SameRegion(graphic.bounds, assigned)

\* C10 witness: bounds with a negative height and a negative width were
\* handed to the setter by adjust_part, and the stored bounds differ from them.
C10_Witness ==
    /\ called = "adjust_part"
    /\ assigned[2][1] < 0
    /\ assigned[2][2] < 0
    /\ graphic.bounds # assigned

(***************************************************************************)
(* Claims about hit testing                                                *)
(***************************************************************************)

\* C11: hit testing has no failure path: for every rectangle, ellipse and line,
\* a line whose start and end coincide included, every test point and either
\* value of move_only, test() returns a part or no match and never raises.
C11_HitTestNeverFails ==
    hit.raised = ""

\* what the specification says test() returns for a rectangle or an ellipse
\* whose corners in widget coordinates are at top, left, bottom and right
CornerNear(cy, cx, p) ==
    (p[1] - cy) * (p[1] - cy) + (p[2] - cx) * (p[2] - cx) < 16

ExpectedPart(g, p, move_only) ==
    LET top    == g.bounds[1][1] * WidgetScale
        left   == g.bounds[1][2] * WidgetScale
        bottom == top + g.bounds[2][1] * WidgetScale
        right  == left + g.bounds[2][2] * WidgetScale
        corners == <<
            [part |-> "top-left",     near |-> CornerNear(top, left, p)],
            [part |-> "top-right",    near |-> CornerNear(top, right, p)],
            [part |-> "bottom-right", near |-> CornerNear(bottom, right, p)],
            [part |-> "bottom-left",  near |-> CornerNear(bottom, left, p)]>>
        hits   == {i \in 1..4 : corners[i].near}
        first  == CHOOSE i \in hits : \A j \in hits : i <= j
        inside == top < p[1] /\ p[1] <= bottom /\ left < p[2] /\ p[2] <= right
    IN  IF ~move_only /\ hits # {} THEN corners[first].part
        ELSE IF inside THEN "all"
        ELSE NoPart

\* C12: for a rectangle or an ellipse, test() returns the first of top-left,
\* top-right, bottom-right and bottom-left whose handle is strictly nearer than
\* 4 widget units, else "all" for a point with origin < p <= origin + size on
\* both axes, else no match; with move_only only "all" or no match.
C12_RectangleHitOrder ==
    (graphic.kind \in {"rectangle", "ellipse"} /\ hit # NoHit) =>
        /\ hit.part = ExpectedPart(graphic, hit.point, hit.move_only)
        /\ hit.move_only => hit.part \in {"all", NoPart}

\* a point at exactly 4 units of the top-left handle, in reach of no other
\* handle and outside the bounds, matches nothing
C12_Witness ==
    /\ graphic.kind = "ellipse"
    /\ graphic.bounds = <<<<2, 2>>, <<2, 2>>>>
    /\ hit.point = <<2, 6>>
    /\ ~hit.move_only
    /\ hit.part = NoPart

(***************************************************************************)
(* Claims about the variable_type of a ComputationVariable                 *)
(***************************************************************************)

\* the dictionary of the variable's specifier has the key with that value
SpecifierHas(v, key, value) ==
    /\ v.specifier # None
    /\ key \in DOMAIN v.specifier[1]
    /\ v.specifier[1][key] = value

\* C13: assigning variable_type = "data_item" to a variable whose type is real
\* completes without failing, leaves value, value_min, value_max and value_type
\* absent and leaves a specifier with version 1 and type "data_item".
C13_RealToDataItem ==
    (type_call.was = "real" /\ type_call.value_type = "data_item") =>
        /\ type_call.raised = ""
        /\ computation_variable.value = None
        /\ computation_variable.value_min = None
        /\ computation_variable.value_max = None
        /\ computation_variable.value_type = NoType
        /\ SpecifierHas(computation_variable, "version", "1")
        /\ SpecifierHas(computation_variable, "type", "data_item")

ScalarForm(v) ==
    v.value_type # NoType /\ v.specifier = None

ReferenceForm(v) ==
    /\ v.specifier # None
    /\ v.value_type = NoType
    /\ v.value = None
    /\ v.value_default = None
    /\ v.value_min = None
    /\ v.value_max = None
    /\ v.control_type = NoControl

\* C14: after any sequence of variable_type assignments on a variable that
\* starts in scalar or in reference form exactly one form applies: value_type
\* set and no specifier, or a specifier and no value_type, value, value_default,
\* value_min, value_max or control_type; also after an assignment that fails.
C14_ExactlyOneForm ==
    ScalarForm(computation_variable) # ReferenceForm(computation_variable)

\* C16 (as claimed): every assignment to variable_type fires
\* variable_type_changed_event exactly once, also an assignment of the type
\* the variable already has.
C16_EveryAssignmentFires ==
    type_call # NoTypeCall => type_call.fired = 1

\* C16 (amended): an assignment to variable_type fires the event exactly once
\* when the assigned type differs from the current one and the assignment
\* completes, and not at all when it assigns the current type or raises.
C16_ChangeFiresOnce ==
    type_call # NoTypeCall =>
        type_call.fired =
            IF type_call.value_type # type_call.was /\ type_call.raised = "" THEN 1 ELSE 0

\* the current type has been assigned and nothing was fired
C16_Witness ==
    /\ type_call.value_type = "integral"
    /\ type_call.was = "integral"
    /\ type_call.fired = 0
    /\ ScalarForm(computation_variable)

(***************************************************************************)
(* Claims about the stored form of a ComputationVariable                   *)
(***************************************************************************)

\* C15: for each scalar value_type and each value of that type, writing value,
\* value_default, value_min and value_max and reading them back gives the same
\* values, whatever the order of the stored keys; a complex value is stored as
\* the pair (real, imag); an absent value stays absent.
C15_ScalarRoundTrip ==
    /\ written # None =>
          \A key \in ValueKeys :
              /\ computation_variable[key] = None <=> written[1][key] = None
              /\ (computation_variable.value_type = "complex" /\ written[1][key] # None) =>
                    written[1][key][1] =
                        PyValue("tuple", computation_variable[key][1].re,
                                computation_variable[key][1].im)
    /\ read_back # None =>
          /\ read_back[1].value_type = computation_variable.value_type
          /\ \A key \in ValueKeys : read_back[1][key] = computation_variable[key]

\* a complex variable with a value and no range has been written and read back
C15_Witness ==
    /\ computation_variable.value_type = "complex"
    /\ computation_variable.value = Some(PyValue("complex", 1, 1))
    /\ computation_variable.value_min = None
    /\ read_back # None
    /\ read_back[1].value = Some(PyValue("complex", 1, 1))
    /\ read_back[1].value_min = None

(***************************************************************************)
(* Claims about bind and unbind                                            *)
(***************************************************************************)

\* the Computation holds no listener and no bound item
NothingHeld(c) ==
    /\ c.variable_changed_event_listeners = {}
    /\ c.variable_property_changed_listener = {}
    /\ c.bound_item_changed_event_listeners = {}
    /\ c.bound_item_deleted_event_listeners = {}
    /\ DOMAIN c.bound_items = {}

\* C17: for every bound Computation, one with a reference variable whose object
\* was not resolved at bind time included, unbind() completes without failing
\* and leaves no listener of the Computation open and no bound item held.
C17_UnbindReleasesAll ==
    binding = "released" =>
        /\ computation.raised = "none"
        /\ NothingHeld(computation)

\* C18: bind(context) is idempotent for listeners: after any number of bind
\* calls, with add_variable calls in between, every owned variable has exactly
\* one changed-event listener of the Computation, whatever the variable's form.
C18_OneChangedListener ==
    binding = "bound" =>
        \A u \in Range(computation.variables) :
            computation.changed_event_listening[u] = 1

(***************************************************************************)
(* Claims about OperationPropertyBinding                                   *)
(***************************************************************************)

\* an update is scheduled exactly at the values notifications whose watched
\* value differs from the one of the notification before
ScheduledIffDiffers ==
    watched.scheduled <=> (watched.notified /\ watched.seen # watched.was_seen)

\* two updates scheduled one after the other carry different values
UpdatesDiffer ==
    (watched.update # None /\ watched.previous_update # None) =>
        watched.update # watched.previous_update

\* C19 (as claimed): the binding schedules a target update on a values
\* notification if and only if the watched parameter's value differs from the
\* value the binding saw last; a set_property on another parameter, or one that
\* writes the same value again, schedules nothing; no two updates scheduled one
\* after the other carry the same value.
C19_UpdateOnlyOnWatchedChange ==
    /\ ScheduledIffDiffers
    /\ (watched.other_key \/ watched.same_value) => ~watched.scheduled
    /\ UpdatesDiffer

\* C19 (amended): the binding schedules a target update on a values
\* notification if and only if the watched parameter's value differs from the
\* value it had at the values notification before (at construction for the
\* first); a call that notifies no values schedules nothing; no two updates
\* scheduled one after the other carry the same value.
C19_UpdateOnChangeSinceNotified ==
    /\ ScheduledIffDiffers
    /\ UpdatesDiffer

\* the watched value was written again after an update and nothing was scheduled
C19_Witness ==
    /\ called = "set_property"
    /\ watched.same_value
    /\ ~watched.other_key
    /\ watched.notified
    /\ ~watched.scheduled
    /\ watched.update # None
    /\ watched.update = Some(watched.seen)

(***************************************************************************)
(* Claims about the Resample operation                                     *)
(***************************************************************************)

\* neither width nor height has been set on the item: it is as it was built
NeverSet(it) ==
    it.values = NewOperationItem(BuiltinRegistrations, "resample-operation").values

\* C20: a Resample operation on which neither width nor height has been set
\* returns data equal to the input from process_data and the input shape from
\* get_processed_data_shape_and_dtype, for every 2-D input shape.
C20_UnsetResampleIsNoOp ==
    NeverSet(operation_item) =>
        /\ called = "process_data" =>
              /\ returned.value.data = "copy of the input"
              /\ returned.value.shape = returned.input
        /\ called = "get_processed_data_shape_and_dtype" =>
              returned.value.shape = returned.input

(***************************************************************************)
(* Claims about fit_to_aspect_ratio (checked under SpecFit)                *)
(***************************************************************************)

\* the returned rectangle, as numerators over r.den, lies inside rect
FitContained(rect, r) ==
    \A axis \in 1..2 :
        /\ r.origin[axis] >= r.den * rect[1][axis]
        /\ r.origin[axis] + r.size[axis] <= r.den * (rect[1][axis] + rect[2][axis])

\* the margins on the two sides of each axis are equal
FitCentered(rect, r) ==
    \A axis \in 1..2 :
        r.origin[axis] - r.den * rect[1][axis]
            = r.den * (rect[1][axis] + rect[2][axis]) - (r.origin[axis] + r.size[axis])

FitFillsOneAxis(rect, r) ==
    \E axis \in 1..2 :
        /\ r.origin[axis] = r.den * rect[1][axis]
        /\ r.size[axis] = r.den * rect[2][axis]

\* the size of r is (height, width)
FitSizeIs(r, height, width) == r.size = <<r.den * height, r.den * width>>

\* the rectangle and the ratio of the worked example: ((0, 0), (10, 20)) and 0.5
FitExample == fit.rect = <<<<0, 0>>, <<10, 20>>>> /\ fit.aspect_ratio = Ratio(1, 2)

\* C21 (as stated): the result is contained in rect, centered in it on both axes,
\* equal to it on one axis, and its height / width is aspect_ratio; for
\* ((0, 0), (10, 20)) and 0.5 the returned size is (5.0, 10.0).
C21_FitHeightOverWidth ==
    fit.result # None =>
        LET r == fit.result[1]
        IN /\ FitContained(fit.rect, r)
           /\ FitCentered(fit.rect, r)
           /\ FitFillsOneAxis(fit.rect, r)
           /\ r.size[1] * fit.aspect_ratio.den = r.size[2] * fit.aspect_ratio.num
           /\ FitExample => FitSizeIs(r, 5, 10)

\* C21 (amended): the result is contained in rect, centered in it on both axes,
\* equal to it on one axis, and its width / height is aspect_ratio; for
\* ((0, 0), (10, 20)) and 0.5 the returned size is (10, 5.0).
C21_FitWidthOverHeight ==
    fit.result # None =>
        LET r == fit.result[1]
        IN /\ FitContained(fit.rect, r)
           /\ FitCentered(fit.rect, r)
           /\ FitFillsOneAxis(fit.rect, r)
           /\ r.size[2] * fit.aspect_ratio.den = r.size[1] * fit.aspect_ratio.num
           /\ FitExample => FitSizeIs(r, 10, 5)

\* the worked example was computed
C21_Witness ==
    /\ FitExample
    /\ fit.result # None
    /\ FitSizeIs(fit.result[1], 10, 5)

(***************************************************************************)
(* Claims about the expression setter (checked under SpecComputation)      *)
(***************************************************************************)

\* the notifications a listener of the Computation can receive
ComputationEvents == {"needs_update_event", "computation_mutated_event"}

\* the place of the first entry of the log that is one of entries (0 when none)
FirstLogged(log, entries) ==
    IF \E i \in 1..Len(log) : log[i] \in entries
    THEN CHOOSE i \in 1..Len(log) :
            /\ log[i] \in entries
            /\ \A j \in 1..(i - 1) : log[j] \notin entries
    ELSE 0

\* C22: assigning to expression the value it has does nothing (no parse, no event,
\* needs_update and the cached result unchanged); assigning another value
\* re-parses, sets needs_update, fires needs_update_event before
\* computation_mutated_event, and every listener notified during the assignment
\* reads the new value from expression (no event precedes the store).
C22_ExpressionSetterNotifiesAfterWrite ==
    [][op'.name = "set_expression" =>
          LET value == op'.target
              log == computation'.log
          IN IF value = computation.original_expression
             THEN /\ log = << >>
                  /\ computation'.needs_update = computation.needs_update
                  /\ computation'.data_and_metadata = computation.data_and_metadata
                  /\ computation'.original_expression = value
             ELSE /\ computation'.original_expression = value
                  /\ computation'.needs_update
                  /\ value # "" => "parse" \in Range(log)
                  /\ FirstLogged(log, {"needs_update_event"}) > 0
                  /\ FirstLogged(log, {"needs_update_event"})
                        < FirstLogged(log, {"computation_mutated_event"})
                  /\ FirstLogged(log, {"original_expression"})
                        < FirstLogged(log, ComputationEvents)]_vars

(***************************************************************************)
(* Claims about evaluate_data (checked under SpecEvaluateData)             *)
(***************************************************************************)

\* what the call of evaluate_data() in this state did, given whether the result
\* evaluate() produced could be read
EvaluateDataOutcome(readable) ==
    /\ computation.raised = "none"
    /\ IF readable
       THEN /\ ret # None
            /\ ret[1] = Repackaged(computation.data_and_metadata[1])
            /\ computation.evaluate_error = NoText
       ELSE /\ ret = None
            /\ computation.evaluate_error # NoText

FiredThenMutated(event) ==
    \E i \in 1..Len(computation.log) :
        /\ computation.log[i] = event
        /\ \E j \in (i + 1)..Len(computation.log) :
              computation.log[j] = "computation_mutated_event"

\* C24: after every add_variable and remove_variable call on a bound Computation
\* the listener's mirror list equals the Computation's variables, and the call
\* fired its insert or remove event and computation_mutated_event after it.
C24_MirrorFollowsVariables ==
    /\ binding = "bound" => mirror = computation.variables
    /\ op.name = "add_variable" => FiredThenMutated("variable_inserted_event")
    /\ op.name = "remove_variable" => FiredThenMutated("variable_removed_event")

(***************************************************************************)
(* Claims about cascade_delete_event (checked under SpecCascade)           *)
(***************************************************************************)

\* o is the object of a bound reference variable whose cascade_delete is set:
\* the Computation is bound, the variable is one of its variables, and its
\* bound item is o
CascadesFrom(o) ==
    /\ binding = "bound"
    /\ \E u \in Range(computation.variables) :
          /\ u \in DOMAIN computation.bound_items
          /\ computation.bound_items[u] = [kind |-> "object", id |-> o]
          /\ cvars[u].cascade_delete

\* C25: the Computation fires cascade_delete_event exactly when the object of one
\* of its bound reference variables fires deleted_event while that variable's
\* cascade_delete is set; never when the flag is unset, nor for a variable that
\* was removed with remove_variable, nor after unbind().
C25_CascadeExactlyWhenFlagged ==
    [][/\ op'.name = "object_deleted" =>
             (("cascade_delete_event" \in Range(computation'.log)) <=> CascadesFrom(op'.target))
       /\ op'.name # "object_deleted" => "cascade_delete_event" \notin Range(computation'.log)]_vars

(***************************************************************************)
(* Claims about adjust_rectangle_like (checked under SpecAdjust)           *)
(***************************************************************************)

Corners == {"top-left", "top-right", "bottom-right", "bottom-left"}

\* the corner of bounds opposite the named one
OppositeCorner(name, bounds) ==
    LET origin == bounds[1]
        size == bounds[2]
    IN CASE name = "top-left" -> <<origin[1] + size[1], origin[2] + size[2]>>
         [] name = "top-right" -> <<origin[1] + size[1], origin[2]>>
         [] name = "bottom-right" -> origin
         [] name = "bottom-left" -> <<origin[1], origin[2] + size[2]>>

\* twice the center of bounds
DoubledCenter(bounds) ==
    <<2 * bounds[1][1] + bounds[2][1], 2 * bounds[1][2] + bounds[2][2]>>

Unconstrained ==
    adjust_rectangle_like(<<0, 0>>, adjusted.delta, adjusted.part,
                          [adjusted.modifiers EXCEPT !.shift = FALSE])[2]

Larger(a, b) == IF a > b THEN a ELSE b

Smaller(a, b) == IF a < b THEN a ELSE b

ShiftOnCorner ==
    /\ adjusted.result # None
    /\ adjusted.part.part \in Corners
    /\ adjusted.modifiers = [alt |-> FALSE, shift |-> TRUE]

\* C27 (as stated): with shift and without alt, for each corner part the returned
\* bounds are a square whose side is the larger of the height and width the same
\* drag gives without shift.
C27_SquareOfLarger ==
    ShiftOnCorner =>
        LET side == Larger(Unconstrained[1], Unconstrained[2])
        IN adjusted.result[1][2] = <<side, side>>

\* C27 (amended): with shift and without alt, for each corner part the returned
\* bounds are a square whose side is the smaller of the height and width the
\* same drag gives without shift, compared as signed numbers.
C27_SquareOfSmaller ==
    ShiftOnCorner =>
        LET side == Smaller(Unconstrained[1], Unconstrained[2])
        IN adjusted.result[1][2] = <<side, side>>

\* a wide rectangle was made taller from its bottom-right corner with shift held
C27_Witness ==
    /\ ShiftOnCorner
    /\ adjusted.part = [part |-> "bottom-right", bounds |-> <<<<0, 0>>, <<2, 4>>>>]
    /\ adjusted.delta = <<4, 0>>
    /\ adjusted.result[1] = <<<<0, 0>>, <<4, 4>>>>

(***************************************************************************)
(* Claims about the drag of a line                                         *)
(***************************************************************************)

\* a step that is a call of adjust_part on the start or the end with Shift held
ShiftOnEndpoint ==
    /\ adjusted' # adjusted
    /\ adjusted'.part.part \in {"start", "end"}
    /\ adjusted'.modifiers.shift

\* the endpoint the call leaves alone, before the call and after it
OtherEndpoint == IF adjusted'.part.part = "start" THEN graphic.end ELSE graphic.start

OtherEndpointAfter == IF adjusted'.part.part = "start" THEN graphic'.end ELSE graphic'.start

MovedEndpointAfter == IF adjusted'.part.part = "start" THEN graphic'.start ELSE graphic'.end

\* |dy| > |dx| between the pointer and the other endpoint
FartherInY ==
    abs(adjusted'.delta[1] - OtherEndpoint[1]) > abs(adjusted'.delta[2] - OtherEndpoint[2])

\* C28 as stated: adjust_part on "start" or "end" with Shift held leaves the
\* other endpoint unchanged and stores a line that is horizontal (both
\* endpoints have the same y) when |dy| > |dx| between the pointer and the
\* other endpoint, and vertical (the same x) otherwise.
C28_HorizontalWhenFartherInY ==
    [][ShiftOnEndpoint =>
        /\ OtherEndpointAfter = OtherEndpoint
        /\ IF FartherInY
           THEN MovedEndpointAfter[1] = OtherEndpoint[1]
           ELSE MovedEndpointAfter[2] = OtherEndpoint[2]]_vars

\* C28 amended: adjust_part on "start" or "end" with Shift held leaves the
\* other endpoint unchanged and stores a line that is vertical (both endpoints
\* have the same x) when |dy| > |dx| between the pointer and the other
\* endpoint, and horizontal (the same y) otherwise.
C28_VerticalWhenFartherInY ==
    [][ShiftOnEndpoint =>
        /\ OtherEndpointAfter = OtherEndpoint
        /\ IF FartherInY
           THEN MovedEndpointAfter[2] = OtherEndpoint[2]
           ELSE MovedEndpointAfter[1] = OtherEndpoint[1]]_vars

\* the end was dragged with Shift held to a pointer farther from the start in y
\* than in x, and the line stands on the column of the start
C28_Witness ==
    /\ adjusted.part.part = "end"
    /\ adjusted.modifiers.shift
    /\ adjusted.delta = <<One, 2>>
    /\ graphic.start = Point(0)
    /\ graphic.end = <<One, 0>>

(***************************************************************************)
(* Claims about the drag of a rectangle or an ellipse                      *)
(***************************************************************************)

\* C29: adjust_part on a rectangle or an ellipse with a part identifier that is
\* none of the five known ones is a no-op at any point of a drag: the stored
\* bounds after the call equal the stored bounds immediately before it.
C29_UnrecognizedPartKeepsBounds ==
    [][called' = "adjust_part(unrecognized)" => graphic'.bounds = graphic.bounds]_vars

\* what the call does instead: it stores the bounds that begin_drag returned
C29_UnrecognizedPartRestoresDragStart ==
    [][called' = "adjust_part(unrecognized)" => graphic'.bounds = drag.bounds]_vars

(***************************************************************************)
(* Claims about the defaults of the Resample operation                     *)
(***************************************************************************)

\* the component of the data shape that is the default of the key
ShapeDefault(data_shape, key) == IF key = "height" THEN data_shape[1] ELSE data_shape[2]

\* the key is absent from values or holds none
Blank(it, key) == it.values[key] = None \/ it.values[key] = Some(PyNone)

\* C30: update_data_shape_and_dtype on a Resample item sets the description
\* default of height and width to the new data shape on every call, and writes
\* values[key] and the operation attribute only when the key is absent from
\* values or holds none; a value that is there is never overwritten.
C30_DefaultsFillOnlyBlankValues ==
    [][called' = "update_data_shape_and_dtype" =>
        \A key \in {"height", "width"} :
            LET default_value == ShapeDefault(returned'.input, key) IN
            /\ operation_item'.defaults[key] = Some(default_value)
            /\ IF Blank(operation_item, key)
               THEN /\ operation_item'.values[key] = Some(default_value)
                    /\ operation_item'.attributes[key] = Some(default_value)
               ELSE /\ operation_item'.values[key] = operation_item.values[key]
                    /\ operation_item'.attributes[key] = operation_item.attributes[key]]_vars

\* a later shape change moved both defaults while the height set by set_property
\* and the width populated by an earlier shape change stay as they were
C30_Witness ==
    /\ called = "update_data_shape_and_dtype"
    /\ returned.input = <<2, 2>>
    /\ operation_item.defaults["height"] = Some(2)
    /\ operation_item.defaults["width"] = Some(2)
    /\ operation_item.values["height"] = Some(1)
    /\ operation_item.values["width"] = Some(1)
    /\ operation_item.attributes["height"] = Some(1)
    /\ operation_item.attributes["width"] = Some(1)

(***************************************************************************)
(* Claims about evaluate() on a thread (checked under SpecRace)            *)
(***************************************************************************)

\* what the expression yields on the inputs as they are now
FreshResult == ExecResult(computation, cvars, objs, computation.original_expression)

\* C31: a change of a bound object that arrives while evaluate() is running on
\* another thread is not lost: an evaluate() that begins after the change, and
\* runs with no further change, returns a result computed from the changed input.
C31_ChangeDuringEvaluateNotLost ==
    op = Op("evaluate", "") /\ ~parse.overlapped => ret = FreshResult

(***************************************************************************)
(* Claims about set_property from two threads (checked under SpecWriters)  *)
(***************************************************************************)

\* all notifications are delivered and all queued update tasks have run
Quiescent ==
    /\ \A t \in Writers : writer[t].pc = "idle"
    /\ property_binding.tasks = << >>

\* C32: when two threads call set_property on the watched parameter, then for
\* every interleaving, once all notifications are delivered and all queued
\* update tasks have run, the value of the last target update equals the
\* source's current value of that parameter.
C32_TargetEndsAtSourceValue ==
    Quiescent /\ target_value # None =>
        target_value[1] = values_get(operation_item.values, property_binding.property_name)

(***************************************************************************)
(* Claims about the BoundVariable handles (checked under SpecHandles)      *)
(***************************************************************************)

\* C33: the number of open listeners the Computation holds on a scalar
\* variable's property_changed_event through BoundVariable handles is bounded
\* for the life of the binding and does not grow with the number of parses:
\* every handle it obtains is released, so that only the one it keeps as the
\* bound item of the variable is open.
C33_HandlesReleased ==
    \A u \in VarIds : handles[u] <= 1

(***************************************************************************)
(* Claims about a changed specifier (checked under SpecRebind)             *)
(***************************************************************************)

\* a variable of the Computation names the object now
Names(u, o) ==
    /\ u \in Range(computation.variables)
    /\ cvars[u].value_type = NoType
    /\ cvars[u].specifier # NoSpecifier
    /\ cvars[u].specifier.uuid = o

\* C34: after the specifier of a bound reference variable is changed to
\* identify another object, the Computation listens to the changed and deleted
\* events of the object the variable names now and no longer to those of the
\* one it named before: a deletion fires cascade_delete_event exactly when the
\* deleted object is named by a variable whose flag is set, and a change fires
\* needs_update_event exactly when the changed object is named by a variable.
C34_ListensToNamedObject ==
    [][/\ op'.name = "object_deleted" =>
             (("cascade_delete_event" \in Range(computation'.log))
                 <=> \E u \in VarIds : Names(u, op'.target) /\ cvars[u].cascade_delete)
       /\ op'.name = "object_changed" =>
             (("needs_update_event" \in Range(computation'.log))
                 <=> \E u \in VarIds : Names(u, op'.target))]_vars

(***************************************************************************)
(* Claims about the move of a bound line (checked under SpecMove)          *)
(***************************************************************************)

\* end minus start of a (start, end) pair
Span(vector) == <<vector[2][1] - vector[1][1], vector[2][2] - vector[1][2]>>

\* C35: when a line bound to an OperationItem is moved as a whole (adjust_part
\* with part "all"), every operation_changed the item fires during the move is
\* sent in a state where values["vector"] has end minus start equal to the
\* drag-start end minus start.
C35_MoveNeverObservedTorn ==
    called = "adjust_part" /\ drag.part = "all" =>
        \A i \in 1..Len(observed) :
            /\ observed[i] # None
            /\ Span(observed[i][1]) = Span(drag.bounds)

(***************************************************************************)
(* Claims about the crop and the line profile (checked under SpecShaped)   *)
(***************************************************************************)

\* C36: for the crop and line-profile operations, for every 2-D input shape and
\* every parameter value a bound graphic can hold, the shape reported by
\* get_processed_data_shape_and_dtype equals the shape of the array that
\* process_data_in_place returns for data of that shape.
C36_ReportedShapeIsProcessedShape ==
    called = "get_processed_data_shape_and_dtype" =>
        LET processed == Shaped(returned.input,
                                shaped_process_data(operation_item, returned.input))
        IN processed.raised = "none" => returned.value.shape = processed.value.shape

(***************************************************************************)
(* Claims about the emptied expression (checked under SpecComputation)     *)
(***************************************************************************)

\* C37: when the expression of a bound Computation that holds a cached result
\* is assigned the empty string, the evaluate() that follows returns no result
\* and leaves error_text absent: the result of the previous expression is not
\* returned for the empty one.
C37_EmptyExpressionHasNoResult ==
    [][op' = Op("set_expression", "") /\ computation.data_and_metadata # None
            /\ computation'.raised = "none"
        => LET evaluated == Evaluate(computation', cvars', objs')
           IN /\ evaluated.data_and_metadata = None
              /\ evaluated.error_text = NoText]_vars

(***************************************************************************)
(* Claims about the Computation that was never bound (checked under        *)
(* SpecUnbound)                                                            *)
(***************************************************************************)

\* the Computation apart from the record of the call: what a call raised and
\* the notifications it sent
Kept(c) == [c EXCEPT !.raised = "none", !.log = << >>]

\* C38: on a Computation that was never bound, add_variable, the assignment of
\* an expression and evaluate() either succeed or fail leaving the Computation
\* as it was: a failed add_variable leaves the variables list without the new
\* variable and no listener registered on it.
C38_FailureLeavesUnboundUnchanged ==
    [][computation'.raised # "none" => Kept(computation') = Kept(computation)]_vars

====
